---- MODULE Spec2Model ----
(***************************************************************************)
(* Shelter-location optimizer (scripts/shelter_optimizer_ensemble.py,      *)
(* scripts/shelter_optimization_comparison.py, scripts/shelter_optimizer.py)*)
(*                                                                         *)
(* Coordinates are fixed-point numbers: one unit is 1/(111000*Scale) of a  *)
(* degree, so that meters_to_degrees(m) is exactly m*Scale units and the   *)
(* mean of up to MaxBuildings demand points is exact.  Distances are       *)
(* compared through their squares (sqrt is monotone), exactly as the       *)
(* vectorised code of filter_existing_coverage does.                       *)
(***************************************************************************)
EXTENDS Integers, Sequences, FiniteSets, TLC

(***************************************************************************)
(* Bounds of the model.                                                    *)
(***************************************************************************)
\* longest raw candidate list handed to the selector specification
MaxPool == 3
\* largest target count (TARGET_SHELTERS is 150 in the scripts)
MaxTarget == 3
\* how many of the radii of RADII_TO_TEST are explored
NumRadii == 2
\* longest demand array
MaxBuildings == 4
\* how many of the DBSCAN_EPS_MULTIPLIERS are run (the last ones of the list)
NumEpsMultipliers == 2
\* self.MIN_BUILDINGS_PER_CLUSTER (5 in the scripts), scaled to MaxBuildings
MIN_BUILDINGS_PER_CLUSTER == 2
\* the one entry of self.DBSCAN_MIN_SAMPLES (10 in the ensemble script), scaled
DBSCAN_MIN_SAMPLE == 3

(***************************************************************************)
(* Program constants.                                                      *)
(***************************************************************************)
\* weighted-random trials of advanced_selection: for _ in range(5)
RandomTrials == 5
\* max_iterations of iterative_improvement_selection
max_iterations == 50
\* lookahead_count = min(10, len(available))
LookaheadWindow == 10
\* remaining_after[:5] and the division by 5
LookaheadFuture == 5

\* self.RADII_TO_TEST
RADII_TO_TEST == <<100, 150, 200, 250, 300>>

\* self.DBSCAN_EPS_MULTIPLIERS, in tenths
DBSCAN_EPS_MULTIPLIERS == <<1, 2, 3, 4, 5, 6, 7, 8, 9, 10>>
\* self.DBSCAN_MIN_SAMPLES
DBSCAN_MIN_SAMPLES == <<DBSCAN_MIN_SAMPLE>>
\* self.KMEANS_K_VALUES ([750, 1500] in the scripts), scaled to MaxBuildings
KMEANS_K_VALUES == <<2, 3>>
\* self.N_KMEANS_SEEDS
N_KMEANS_SEEDS == 2
\* self.MAX_WORKERS
MAX_WORKERS == 5
\* self.PEOPLE_PER_BUILDING
PEOPLE_PER_BUILDING == 7
\* "if len(cluster_buildings) <= 50" of run_single_dbscan_config
BestPointMaxCluster == 50

\* fixed-point scale of the coordinates: the least common multiple of
\* 1..MaxBuildings, so that the mean of any cluster is exact
RECURSIVE Gcd(_, _)
Gcd(a, b) == IF b = 0 THEN a ELSE Gcd(b, a % b)

RECURSIVE LcmUpTo(_)
LcmUpTo(n) == IF n <= 1 THEN 1
              ELSE (LcmUpTo(n - 1) * n) \div Gcd(LcmUpTo(n - 1), n)

Scale == LcmUpTo(MaxBuildings)

VARIABLES
    \* ---- selector specification (SelSpec) ----
    sel_variant,               \* which script's selector runs
    sel_pool,                  \* all_candidates: the pool as generated
    sel_candidates,            \* the list handed to the selector
    sel_radius_m,              \* coverage_radius_m
    sel_target,                \* target_count (self.TARGET_SHELTERS)
    sel_pc,
    sel_greedy,                \* greedy_selected
    sel_iterative,             \* iterative_selected
    sel_best_random,           \* best_random_selected as an option: <<>> is None
    sel_best_random_coverage,  \* best_random_coverage
    sel_trial,                 \* weighted-random trials finished
    sel_trial_selected,        \* "selected" of the running trial
    sel_trial_available,       \* "available" of the running trial
    sel_result,                \* what the selector returned
    sel_strategy,              \* name of the strategy that produced sel_result
    \* ---- the ensemble pipeline for one radius (Spec) ----
    building_coords,           \* the demand array, (lat, lon) pairs
    shelter_features,          \* the facilities: [pos, status]
    radius_m,                  \* coverage_radius_m
    USE_MULTITHREADING,
    TARGET_SHELTERS,
    run_pc,                    \* where optimize_for_radius stands
    existing_shelters,         \* positions of the 'Built' facilities
    uncovered_buildings,       \* residual demand
    uncovered_indices,
    all_candidates,            \* the shared candidate pool
    enhanced_candidates,       \* "candidates" of generate_dbscan_candidates_*
    kmeans_candidates,         \* "candidates" of generate_kmeans_candidates
    task,                      \* state of the future of each DBSCAN config
    collected,                 \* futures as_completed has yielded
    config_index,              \* next config of a sequential loop
    deduplicated,
    selected_shelters,
    result,                    \* option: <<>> until optimize_for_radius returns
    run_no,                    \* 1 or 2: the pipeline is run twice
    first_run,                 \* what the first run produced
    raised,                    \* the configurations that raised in this run
    written,                   \* the records written for the radii done so far
    include_planned            \* the scenario of the simple script's run

selVars == <<sel_variant, sel_pool, sel_candidates, sel_radius_m, sel_target,
             sel_pc, sel_greedy, sel_iterative, sel_best_random,
             sel_best_random_coverage, sel_trial, sel_trial_selected, sel_trial_available,
             sel_result, sel_strategy>>

pipeVars == <<building_coords, shelter_features, radius_m, USE_MULTITHREADING, TARGET_SHELTERS, run_pc,
              existing_shelters, uncovered_buildings, uncovered_indices, all_candidates, enhanced_candidates, kmeans_candidates,
              task, collected, config_index, deduplicated, selected_shelters, result,
              run_no, first_run, raised, written, include_planned>>

vars == <<selVars, pipeVars>>

(***************************************************************************)
(* Sequences.                                                              *)
(***************************************************************************)
Range(s) == {s[i] : i \in 1..Len(s)}

SeqsUpTo(S, n) == UNION {[1..k -> S] : k \in 0..n}

\* the arrays that list up to n of the entries of sites, in the order of sites
RECURSIVE SubArrays(_, _)
SubArrays(sites, n) ==
    IF sites = <<>> \/ n = 0 THEN {<<>>}
    ELSE SubArrays(Tail(sites), n)
         \cup {<<sites[1]>> \o t : t \in SubArrays(Tail(sites), n - 1)}

RECURSIVE SumSeq(_)
SumSeq(s) == IF s = <<>> THEN 0 ELSE s[1] + SumSeq(Tail(s))

Min2(a, b) == IF a < b THEN a ELSE b

\* int(x / y) of Python for y > 0: truncation toward zero
TruncDiv(x, y) == IF x >= 0 THEN x \div y ELSE -((-x) \div y)

(***************************************************************************)
(* Geometry.                                                               *)
(***************************************************************************)
\* meters * lat_deg_per_meter with lat_deg_per_meter = 1/111000; the unit of
\* the model is 1/(111000*Scale) degree.  Only this first component of
\* meters_to_degrees is ever used by the callers.
UnitsPerDegree == 111000 * Scale

meters_to_degrees(meters) == meters * (UnitsPerDegree \div 111000)

\* squared distance of two (lat, lon) pairs
DistSq(lat1, lon1, lat2, lon2) ==
    (lat1 - lat2) * (lat1 - lat2) + (lon1 - lon2) * (lon1 - lon2)

\* squared distance of two candidate records
CandDistSq(a, b) == DistSq(a.lat, a.lon, b.lat, b.lon)

\* np.sqrt(np.sum((a - b) ** 2)) < min_distance_deg
TooClose(a, b, min_distance_deg) ==
    CandDistSq(a, b) < min_distance_deg * min_distance_deg

\* sum(s['buildings_covered'] for s in selected)
TotalCoverage(sel) == SumSeq([i \in 1..Len(sel) |-> sel[i].buildings_covered])

(***************************************************************************)
(* candidates.sort(key=lambda x: x['buildings_covered'], reverse=True):    *)
(* a stable sort, equal keys keep their input order.                       *)
(***************************************************************************)
InsertByCoverage(t, x) ==
    LET k == Cardinality({i \in 1..Len(t) :
                            t[i].buildings_covered >= x.buildings_covered})
    IN SubSeq(t, 1, k) \o <<x>> \o SubSeq(t, k + 1, Len(t))

RECURSIVE SortByCoverage(_)
SortByCoverage(s) ==
    IF Len(s) <= 1 THEN s
    ELSE InsertByCoverage(SortByCoverage(SubSeq(s, 1, Len(s) - 1)), s[Len(s)])

(***************************************************************************)
(* remove_duplicate_candidates (comparison variant, and the unused copy of *)
(* the ensemble variant): quadratic greedy deduplication.                  *)
(***************************************************************************)
RECURSIVE DedupLoop(_, _, _)
DedupLoop(cands, filtered_candidates, min_distance_deg) ==
    IF cands = <<>> THEN filtered_candidates
    ELSE LET candidate == cands[1]
             too_close == \E j \in 1..Len(filtered_candidates) :
                             TooClose(candidate, filtered_candidates[j],
                                      min_distance_deg)
         IN DedupLoop(Tail(cands),
                      IF too_close THEN filtered_candidates
                      ELSE Append(filtered_candidates, candidate),
                      min_distance_deg)

remove_duplicate_candidates(cands, min_distance_deg) ==
    IF cands = <<>> THEN cands
    ELSE DedupLoop(SortByCoverage(cands), <<>>, min_distance_deg)

(***************************************************************************)
(* remove_duplicate_candidates_fast: the same greedy pass behind a spatial *)
(* hash.  A candidate is compared with the accepted ones only when one of  *)
(* the nine buckets around its own is occupied; the comparison then runs   *)
(* over every accepted candidate.                                          *)
(***************************************************************************)
\* grid_x = int(lat / grid_size), grid_y = int(lon / grid_size)
GridCell(c, grid_size) ==
    <<TruncDiv(c.lat, grid_size), TruncDiv(c.lon, grid_size)>>

\* the hashed pass looking for accepted candidates in the candidate's own
\* bucket only
RECURSIVE FastDedupLoopOwnCell(_, _, _, _)
FastDedupLoopOwnCell(cands, filtered_candidates, occupied_positions, min_distance_deg) ==
    IF cands = <<>> THEN filtered_candidates
    ELSE LET candidate == cands[1]
             cell == GridCell(candidate, min_distance_deg)
             conflict == cell \in occupied_positions /\
                         \E j \in 1..Len(filtered_candidates) :
                             TooClose(candidate, filtered_candidates[j],
                                      min_distance_deg)
         IN IF conflict
            THEN FastDedupLoopOwnCell(Tail(cands), filtered_candidates,
                                      occupied_positions, min_distance_deg)
            ELSE FastDedupLoopOwnCell(Tail(cands),
                                      Append(filtered_candidates, candidate),
                                      occupied_positions \cup {cell},
                                      min_distance_deg)

RECURSIVE FastDedupLoop(_, _, _, _)
FastDedupLoop(cands, filtered_candidates, occupied_positions, min_distance_deg) ==
    IF cands = <<>> THEN filtered_candidates
    ELSE LET candidate == cands[1]
             cell == GridCell(candidate, min_distance_deg)
             neighbour == \E dx \in {-1, 0, 1} : \E dy \in {-1, 0, 1} :
                              <<cell[1] + dx, cell[2] + dy>> \in occupied_positions
             conflict == neighbour /\
                         \E j \in 1..Len(filtered_candidates) :
                             TooClose(candidate, filtered_candidates[j],
                                      min_distance_deg)
         IN IF conflict
            THEN FastDedupLoop(Tail(cands), filtered_candidates,
                               occupied_positions, min_distance_deg)
            ELSE FastDedupLoop(Tail(cands), Append(filtered_candidates, candidate),
                               occupied_positions \cup {cell}, min_distance_deg)

\* the hashed deduplication without the sort
remove_duplicate_candidates_fast_unsorted(cands, min_distance_deg) ==
    IF cands = <<>> THEN cands
    ELSE FastDedupLoop(cands, <<>>, {}, min_distance_deg)

remove_duplicate_candidates_fast(cands, min_distance_deg) ==
    IF cands = <<>> THEN cands
    ELSE FastDedupLoop(SortByCoverage(cands), <<>>, {}, min_distance_deg)

(***************************************************************************)
(* greedy_selection: candidates by non-increasing coverage, accept one     *)
(* when it is not closer than min_distance_deg to an accepted one.         *)
(***************************************************************************)
\* the greedy pass ending at the first conflicting candidate
RECURSIVE GreedyLoopStopsAtConflict(_, _, _, _)
GreedyLoopStopsAtConflict(cands, selected, min_distance_deg, target_count) ==
    IF cands = <<>> \/ Len(selected) >= target_count THEN selected
    ELSE LET candidate == cands[1]
             too_close == \E j \in 1..Len(selected) :
                             TooClose(candidate, selected[j], min_distance_deg)
         IN IF too_close THEN selected
            ELSE GreedyLoopStopsAtConflict(Tail(cands), Append(selected, candidate),
                                           min_distance_deg, target_count)

RECURSIVE GreedyLoop(_, _, _, _)
GreedyLoop(cands, selected, min_distance_deg, target_count) ==
    IF cands = <<>> \/ Len(selected) >= target_count THEN selected
    ELSE LET candidate == cands[1]
             too_close == \E j \in 1..Len(selected) :
                             TooClose(candidate, selected[j], min_distance_deg)
         IN GreedyLoop(Tail(cands),
                       IF too_close THEN selected ELSE Append(selected, candidate),
                       min_distance_deg, target_count)

greedy_selection(cands, min_distance_deg, target_count) ==
    GreedyLoop(SortByCoverage(cands), <<>>, min_distance_deg, target_count)

(***************************************************************************)
(* greedy_non_overlapping_selection of the simple optimizer: all the       *)
(* candidates when there are at most TARGET_SHELTERS of them, else the     *)
(* greedy pass over the list as given (get_cluster_centroids sorted it).   *)
(***************************************************************************)
greedy_non_overlapping_selection(cands, coverage_radius_m, target_shelters) ==
    IF Len(cands) <= target_shelters THEN cands
    ELSE GreedyLoop(cands, <<>>, meters_to_degrees(coverage_radius_m * 2),
                    target_shelters)

(***************************************************************************)
(* greedy_selection_with_lookahead.  score = coverage + 0.1 * (sum of the  *)
(* coverage of the first five later non-conflicting candidates) / 5; the   *)
(* model compares 50 * score, an integer.                                  *)
(***************************************************************************)
LookaheadScore(available, i, min_distance_deg) ==
    LET candidate == available[i]
        rest == SubSeq(available, i + 1, Len(available))
        Far(c) == ~TooClose(candidate, c, min_distance_deg)
        remaining_after == SelectSeq(rest, Far)
        firstFive == SubSeq(remaining_after, 1,
                            Min2(LookaheadFuture, Len(remaining_after)))
    IN 10 * LookaheadFuture * candidate.buildings_covered + TotalCoverage(firstFive)

\* the best candidate looked for in the whole list, not the first ten
BestLookaheadWholeList(available, min_distance_deg) ==
    LET score(i) == LookaheadScore(available, i, min_distance_deg)
        winners == {i \in 1..Len(available) :
                      /\ score(i) > 0
                      /\ \A j \in 1..Len(available) :
                            \/ score(j) < score(i)
                            \/ (score(j) = score(i) /\ j >= i)}
    IN IF winners = {} THEN 0 ELSE CHOOSE i \in winners : TRUE

\* index of best_candidate in available, 0 for None
BestLookahead(available, min_distance_deg) ==
    LET lookahead_count == Min2(LookaheadWindow, Len(available))
        score(i) == LookaheadScore(available, i, min_distance_deg)
        winners == {i \in 1..lookahead_count :
                      /\ score(i) > 0
                      /\ \A j \in 1..lookahead_count :
                            \/ score(j) < score(i)
                            \/ (score(j) = score(i) /\ j >= i)}
    IN IF winners = {} THEN 0 ELSE CHOOSE i \in winners : TRUE

RECURSIVE LookaheadLoop(_, _, _, _)
LookaheadLoop(selected, available, min_distance_deg, target_count) ==
    IF ~(Len(selected) < target_count /\ available # <<>>) THEN selected
    ELSE LET b == BestLookahead(available, min_distance_deg)
         IN IF b = 0 THEN selected
            ELSE LET best_candidate == available[b]
                     Keep(c) == c # best_candidate /\
                                ~TooClose(best_candidate, c, min_distance_deg)
                 IN LookaheadLoop(Append(selected, best_candidate),
                                  SelectSeq(available, Keep),
                                  min_distance_deg, target_count)

greedy_selection_with_lookahead(cands, min_distance_deg, target_count) ==
    LookaheadLoop(<<>>, SortByCoverage(cands), min_distance_deg, target_count)

\* optimal_shelter_selection with the short-circuit taken one candidate late
optimal_shelter_selection_late(cands, coverage_radius_m, target_count) ==
    IF Len(cands) <= target_count + 1 THEN cands
    ELSE greedy_selection_with_lookahead(cands,
                                         meters_to_degrees(coverage_radius_m) * 2,
                                         target_count)

\* optimal_shelter_selection with the short-circuit only below the target
optimal_shelter_selection_below(cands, coverage_radius_m, target_count) ==
    IF Len(cands) < target_count THEN cands
    ELSE greedy_selection_with_lookahead(cands,
                                         meters_to_degrees(coverage_radius_m) * 2,
                                         target_count)

\* optimal_shelter_selection of the ensemble variant
optimal_shelter_selection(cands, coverage_radius_m, target_count) ==
    IF Len(cands) <= target_count THEN cands
    ELSE greedy_selection_with_lookahead(cands,
                                         meters_to_degrees(coverage_radius_m) * 2,
                                         target_count)

(***************************************************************************)
(* iterative_improvement_selection: passes over the selection; a pass      *)
(* makes the first improving one-for-one swap it finds (slot i in order,   *)
(* then candidates by non-increasing coverage) and ends.                   *)
(***************************************************************************)
\* the swap test accepting a swap that leaves the total unchanged
SwapAcceptedNonStrict(current_selection, cands, i, k, min_distance_deg) ==
    LET candidate == cands[k]
        conflicts == \E j \in 1..Len(current_selection) :
                        j # i /\ TooClose(candidate, current_selection[j],
                                          min_distance_deg)
        test_selection == [current_selection EXCEPT ![i] = candidate]
    IN /\ candidate \notin Range(current_selection)
       /\ ~conflicts
       /\ TotalCoverage(test_selection) >= TotalCoverage(current_selection)

\* the swap test with the conflict check leaving out the first site
SwapAcceptedSkipsFirst(current_selection, cands, i, k, min_distance_deg) ==
    LET candidate == cands[k]
        conflicts == \E j \in 2..Len(current_selection) :
                        j # i /\ TooClose(candidate, current_selection[j],
                                          min_distance_deg)
        test_selection == [current_selection EXCEPT ![i] = candidate]
    IN /\ candidate \notin Range(current_selection)
       /\ ~conflicts
       /\ TotalCoverage(test_selection) > TotalCoverage(current_selection)

\* the swap test without the conflict check
SwapAcceptedUnchecked(current_selection, cands, i, k, min_distance_deg) ==
    LET candidate == cands[k]
        test_selection == [current_selection EXCEPT ![i] = candidate]
    IN /\ candidate \notin Range(current_selection)
       /\ TotalCoverage(test_selection) > TotalCoverage(current_selection)

\* the swap of slot i for cands[k] is tried and accepted
SwapAccepted(current_selection, cands, i, k, min_distance_deg) ==
    LET candidate == cands[k]
        conflicts == \E j \in 1..Len(current_selection) :
                        j # i /\ TooClose(candidate, current_selection[j],
                                          min_distance_deg)
        test_selection == [current_selection EXCEPT ![i] = candidate]
    IN /\ candidate \notin Range(current_selection)
       /\ ~conflicts
       /\ TotalCoverage(test_selection) > TotalCoverage(current_selection)

\* <<i, k>> of the swap one pass makes, <<0, 0>> when the pass improves nothing
FirstSwap(current_selection, cands, min_distance_deg) ==
    LET ok(i, k) == SwapAccepted(current_selection, cands, i, k, min_distance_deg)
        slots == {i \in 1..Len(current_selection) :
                    \E k \in 1..Len(cands) : ok(i, k)}
    IN IF slots = {} THEN <<0, 0>>
       ELSE LET i == CHOOSE x \in slots : \A y \in slots : x <= y
                ks == {k \in 1..Len(cands) : ok(i, k)}
            IN <<i, CHOOSE x \in ks : \A y \in ks : x <= y>>

RECURSIVE ImprovementLoop(_, _, _, _)
ImprovementLoop(current_selection, cands, min_distance_deg, iterations) ==
    IF iterations >= max_iterations THEN current_selection
    ELSE LET sw == FirstSwap(current_selection, cands, min_distance_deg)
         IN IF sw = <<0, 0>> THEN current_selection
            ELSE ImprovementLoop([current_selection EXCEPT ![sw[1]] = cands[sw[2]]],
                                 cands, min_distance_deg, iterations + 1)

iterative_improvement_selection(cands, min_distance_deg, target_count, initial_selection) ==
    IF initial_selection = <<>> THEN initial_selection
    ELSE ImprovementLoop(initial_selection, SortByCoverage(cands),
                         min_distance_deg, 0)

(***************************************************************************)
(* weighted_random_selection, one draw at a time.                          *)
(* rand_val = random.uniform(0, total_weight) and the scan                 *)
(* "cumulative >= rand_val" pick the first index when rand_val = 0 and     *)
(* otherwise an index of positive weight; every such index can be drawn.   *)
(***************************************************************************)
Weights(available) ==
    [i \in 1..Len(available) |->
        available[i].buildings_covered * available[i].buildings_covered]

DrawableIndices(available) ==
    {i \in 1..Len(available) : i = 1 \/ Weights(available)[i] > 0}

\* the while condition and the "total_weight == 0: break" exit
RandomLoopRuns(selected, available, target_count) ==
    /\ Len(selected) < target_count
    /\ available # <<>>
    /\ SumSeq(Weights(available)) # 0

\* available with the picked candidate removed and the conflicting ones left
RandomRemainingOnlyPicked(available, selected_candidate, min_distance_deg) ==
    SelectSeq(available, LAMBDA c : c # selected_candidate)

\* available after selected_candidate was picked
RandomRemaining(available, selected_candidate, min_distance_deg) ==
    LET Far(c) == ~TooClose(selected_candidate, c, min_distance_deg)
    IN SelectSeq(available, Far)

(***************************************************************************)
(* The comparison at the end of advanced_selection.  A strategy's result   *)
(* is an option: <<>> for None, <<selection>> otherwise.                   *)
(***************************************************************************)
RECURSIVE BestStrategyLoop(_, _, _)
BestStrategyLoop(strategies, best_strategy, best_total_coverage) ==
    IF strategies = <<>> THEN best_strategy
    ELSE LET name == strategies[1][1]
             opt == strategies[1][2]
             truthy == opt # <<>> /\ opt[1] # <<>>
         IN IF truthy /\ TotalCoverage(opt[1]) > best_total_coverage
            THEN BestStrategyLoop(Tail(strategies),
                                  <<[name |-> name, selected |-> opt[1]]>>,
                                  TotalCoverage(opt[1]))
            ELSE BestStrategyLoop(Tail(strategies), best_strategy,
                                  best_total_coverage)

\* the comparison with the last of the best strategies winning a tie
RECURSIVE LastBestStrategyLoop(_, _, _)
LastBestStrategyLoop(strategies, best_strategy, best_total_coverage) ==
    IF strategies = <<>> THEN best_strategy
    ELSE LET name == strategies[1][1]
             opt == strategies[1][2]
             truthy == opt # <<>> /\ opt[1] # <<>>
         IN IF truthy /\ TotalCoverage(opt[1]) >= best_total_coverage
            THEN LastBestStrategyLoop(Tail(strategies),
                                      <<[name |-> name, selected |-> opt[1]]>>,
                                      TotalCoverage(opt[1]))
            ELSE LastBestStrategyLoop(Tail(strategies), best_strategy,
                                      best_total_coverage)

CompareStrategiesLastWins(greedy, iterative, best_random) ==
    LET best_strategy ==
            LastBestStrategyLoop(<< <<"greedy", <<greedy>> >>,
                                    <<"iterative", <<iterative>> >>,
                                    <<"random", best_random>> >>, <<>>, 0)
    IN IF best_strategy # <<>> THEN best_strategy[1]
       ELSE [name |-> "greedy", selected |-> greedy]

\* [name, selected] of what advanced_selection returns
CompareStrategies(greedy, iterative, best_random) ==
    LET best_strategy ==
            BestStrategyLoop(<< <<"greedy", <<greedy>> >>,
                                <<"iterative", <<iterative>> >>,
                                <<"random", best_random>> >>, <<>>, 0)
    IN IF best_strategy # <<>> THEN best_strategy[1]
       ELSE [name |-> "greedy", selected |-> greedy]

\* min_distance_deg = coverage_radius_deg * 0.1 (the radii are multiples of 10)
DedupDistance(coverage_radius_m) == meters_to_degrees(coverage_radius_m) \div 10

\* min_distance_deg = coverage_radius_deg * 2
MinSeparation(coverage_radius_m) == meters_to_degrees(coverage_radius_m) * 2

\* a candidate site record
Candidate(lat, lon, cov, method, size) ==
    [lat |-> lat, lon |-> lon, buildings_covered |-> cov,
     method |-> method, cluster_size |-> size]

(***************************************************************************)
(* Coverage of a position over an array of demand points.                  *)
(***************************************************************************)
\* calculate_coverage_score: np.sum(distances <= coverage_radius_deg)
calculate_coverage_score(lat, lon, coords, coverage_radius_deg) ==
    Cardinality({i \in 1..Len(coords) :
        DistSq(coords[i][1], coords[i][2], lat, lon)
            <= coverage_radius_deg * coverage_radius_deg})

(***************************************************************************)
(* sklearn.cluster.DBSCAN(eps, min_samples).fit_predict(coords): a point   *)
(* is a core point when at least min_samples points (itself included) lie  *)
(* within eps of it; clusters are grown from the core points in index      *)
(* order, one at a time, so clusters are numbered by their first core      *)
(* point and a border point belongs to the first cluster that reaches it;  *)
(* the other points are noise, label -1.                                   *)
(***************************************************************************)
Neighbours(coords, i, eps) ==
    {j \in 1..Len(coords) :
        DistSq(coords[i][1], coords[i][2], coords[j][1], coords[j][2]) <= eps * eps}

CorePoints(coords, eps, min_samples) ==
    {i \in 1..Len(coords) : Cardinality(Neighbours(coords, i, eps)) >= min_samples}

\* the core points density-connected to the core points of "reached"
RECURSIVE CoreClosure(_, _, _, _)
CoreClosure(coords, eps, cores, reached) ==
    LET more == {j \in cores : \E i \in reached : j \in Neighbours(coords, i, eps)}
    IN IF more \subseteq reached THEN reached
       ELSE CoreClosure(coords, eps, cores, reached \cup more)

SetMin(S) == CHOOSE x \in S : \A y \in S : x <= y

DBSCAN(coords, eps, min_samples) ==
    LET cores == CorePoints(coords, eps, min_samples)
        comp(i) == CoreClosure(coords, eps, cores, {i})
        seeds == {i \in cores : i = SetMin(comp(i))}
        labelOfCore(i) ==
            Cardinality({sd \in seeds : sd < SetMin(comp(i))})
        borderLabels(q) ==
            {labelOfCore(c) : c \in {x \in cores : q \in Neighbours(coords, x, eps)}}
    IN [q \in 1..Len(coords) |->
          IF q \in cores THEN labelOfCore(q)
          ELSE IF borderLabels(q) = {} THEN -1
          ELSE SetMin(borderLabels(q))]

\* building_coords[cluster_labels == cluster_id], as indices in array order
ClusterMembers(cluster_labels, cluster_id) ==
    SelectSeq([i \in 1..Len(cluster_labels) |-> i],
              LAMBDA i : cluster_labels[i] = cluster_id)

\* the cluster ids in the order "for cluster_id in unique_labels" visits
\* them, noise skipped
ClusterIds(cluster_labels) ==
    LET ids == {cluster_labels[i] : i \in 1..Len(cluster_labels)} \ {-1}
    IN [k \in 1..Cardinality(ids) |-> k - 1]

\* np.mean(cluster_buildings, axis=0); exact, Scale is a multiple of the size
Centroid(coords, members) ==
    <<SumSeq([k \in 1..Len(members) |-> coords[members[k]][1]]) \div Len(members),
      SumSeq([k \in 1..Len(members) |-> coords[members[k]][2]]) \div Len(members)>>

\* np.argmin(distances_to_centroid): the first member nearest to the centroid
Medoid(coords, members) ==
    LET c == Centroid(coords, members)
        d(k) == DistSq(coords[members[k]][1], coords[members[k]][2], c[1], c[2])
        k0 == SetMin({k \in 1..Len(members) :
                        \A l \in 1..Len(members) : d(k) <= d(l)})
    IN coords[members[k0]]

\* the "best point" loop: the first member of maximal coverage
BestPoint(coords, members, coverage_radius_deg) ==
    LET cov(k) == calculate_coverage_score(coords[members[k]][1],
                      coords[members[k]][2], coords, coverage_radius_deg)
        k0 == SetMin({k \in 1..Len(members) :
                        \A l \in 1..Len(members) : cov(k) >= cov(l)})
    IN <<coords[members[k0]], cov(k0)>>

\* eps = coverage_radius_deg * eps_mult, eps_mult given in tenths
Eps(coverage_radius_deg, eps_tenths) == (coverage_radius_deg \div 10) * eps_tenths

\* one candidate, kept only when it covers MIN_BUILDINGS_PER_CLUSTER buildings
CandidateIfViable(pos, coords, coverage_radius_deg, method, size) ==
    LET coverage == calculate_coverage_score(pos[1], pos[2], coords,
                                             coverage_radius_deg)
    IN IF coverage >= MIN_BUILDINGS_PER_CLUSTER
       THEN <<Candidate(pos[1], pos[2], coverage, method, size)>>
       ELSE <<>>

\* the candidates run_single_dbscan_config appends for one cluster
ClusterCandidates(coords, members, coverage_radius_deg, eps_tenths, min_samples) ==
    IF Len(members) < MIN_BUILDINGS_PER_CLUSTER THEN <<>>
    ELSE LET best == BestPoint(coords, members, coverage_radius_deg)
         IN CandidateIfViable(Centroid(coords, members), coords,
                              coverage_radius_deg,
                              <<"dbscan_centroid", eps_tenths, min_samples>>,
                              Len(members))
            \o CandidateIfViable(Medoid(coords, members), coords,
                                 coverage_radius_deg,
                                 <<"dbscan_medoid", eps_tenths, min_samples>>,
                                 Len(members))
            \o (IF Len(members) <= BestPointMaxCluster /\
                   best[2] >= MIN_BUILDINGS_PER_CLUSTER
                THEN <<Candidate(best[1][1], best[1][2], best[2],
                                 <<"dbscan_best", eps_tenths, min_samples>>,
                                 Len(members))>>
                ELSE <<>>)

RECURSIVE ConcatAll(_)
ConcatAll(ss) == IF ss = <<>> THEN <<>> ELSE ss[1] \o ConcatAll(Tail(ss))

\* run_single_dbscan_config: the candidate list of one (eps_mult, min_samples)
run_single_dbscan_config(coords, coverage_radius_deg, eps_tenths, min_samples) ==
    LET cluster_labels == DBSCAN(coords, Eps(coverage_radius_deg, eps_tenths),
                                 min_samples)
        ids == ClusterIds(cluster_labels)
    IN ConcatAll([k \in 1..Len(ids) |->
           ClusterCandidates(coords, ClusterMembers(cluster_labels, ids[k]),
                             coverage_radius_deg, eps_tenths, min_samples)])

\* generate_original_dbscan_candidates: eps = radius, min_samples =
\* MIN_BUILDINGS_PER_CLUSTER, centroids only
generate_original_dbscan_candidates(coords, coverage_radius_m) ==
    LET coverage_radius_deg == meters_to_degrees(coverage_radius_m)
        cluster_labels == DBSCAN(coords, coverage_radius_deg,
                                 MIN_BUILDINGS_PER_CLUSTER)
        ids == ClusterIds(cluster_labels)
        one(members) ==
            IF Len(members) < MIN_BUILDINGS_PER_CLUSTER THEN <<>>
            ELSE CandidateIfViable(Centroid(coords, members), coords,
                                   coverage_radius_deg,
                                   <<"original_dbscan_centroid", 10,
                                     MIN_BUILDINGS_PER_CLUSTER>>,
                                   Len(members))
    IN ConcatAll([k \in 1..Len(ids) |->
                    one(ClusterMembers(cluster_labels, ids[k]))])

(***************************************************************************)
(* sklearn.cluster.KMeans(n_clusters=k, random_state, n_init=10): with a   *)
(* fixed random_state the fit is a function of the data.  The model takes  *)
(* the partition into k non-empty groups of least within-group squared     *)
(* distance (groups numbered by their first point); fewer samples than     *)
(* clusters is the ValueError of fit_predict.                              *)
(***************************************************************************)
KMeansRaises(coords, k) == Len(coords) < k

KMeansLabelings(n, k) ==
    {f \in [1..n -> 0..(k - 1)] :
        /\ \A g \in 0..(k - 1) : \E i \in 1..n : f[i] = g
        /\ \A i \in 1..n : \A g \in 0..(k - 1) :
              g < f[i] => \E j \in 1..(i - 1) : f[j] = g}

Inertia(coords, labels, k) ==
    SumSeq([i \in 1..Len(coords) |->
        LET c == Centroid(coords, ClusterMembers(labels, labels[i]))
        IN DistSq(coords[i][1], coords[i][2], c[1], c[2])])

KMeansFit(coords, k, random_state) ==
    CHOOSE f \in KMeansLabelings(Len(coords), k) :
        \A g \in KMeansLabelings(Len(coords), k) :
            Inertia(coords, f, k) <= Inertia(coords, g, k)

\* random_state = run_id * 1000 + k + seed * 100
RandomState(run_id, k, seed) == run_id * 1000 + k + seed * 100

\* the candidates generate_kmeans_candidates appends for one (k, seed)
kmeans_config_candidates(coords, coverage_radius_m, run_id, k, seed) ==
    LET coverage_radius_deg == meters_to_degrees(coverage_radius_m)
        cluster_labels == KMeansFit(coords, k, RandomState(run_id, k, seed))
    IN ConcatAll([i \in 1..k |->
          LET members == ClusterMembers(cluster_labels, i - 1)
          IN CandidateIfViable(Centroid(coords, members), coords,
                               coverage_radius_deg,
                               <<"kmeans", k, seed + 1>>, Len(members))])

(***************************************************************************)
(* SelSpec: the three selectors on arbitrary candidate pools.              *)
(*   "optimal"  ensemble:   remove_duplicate_candidates_fast, then         *)
(*                          optimal_shelter_selection                      *)
(*   "advanced" comparison: remove_duplicate_candidates, then              *)
(*                          advanced_selection                             *)
(*   "simple"   simple:     sorted centroids, then                         *)
(*                          greedy_non_overlapping_selection               *)
(***************************************************************************)
Radii == {RADII_TO_TEST[i] : i \in 1..Min2(NumRadii, Len(RADII_TO_TEST))}

\* candidate positions, in meters north/east of an origin
SelPositions == {<<0, 0>>, <<0, -8>>, <<120, 0>>, <<240, 0>>, <<320, 0>>}
SelCoverages == {15, 20}

SelUniverse ==
    {Candidate(p[1] * Scale, p[2] * Scale, c, <<"dbscan_centroid", 10, 10>>, c) :
        p \in SelPositions, c \in SelCoverages}

\* the pipeline variables while the selector specification runs
PipeIdle ==
    /\ building_coords = <<>>
    /\ shelter_features = <<>>
    /\ radius_m = 0
    /\ USE_MULTITHREADING = FALSE
    /\ TARGET_SHELTERS = 0
    /\ run_pc = "idle"
    /\ existing_shelters = <<>>
    /\ uncovered_buildings = <<>>
    /\ uncovered_indices = <<>>
    /\ all_candidates = <<>>
    /\ enhanced_candidates = <<>>
    /\ kmeans_candidates = <<>>
    /\ task = <<>>
    /\ collected = {}
    /\ config_index = 0
    /\ deduplicated = <<>>
    /\ selected_shelters = <<>>
    /\ result = <<>>
    /\ run_no = 0
    /\ first_run = <<>>
    /\ raised = {}
    /\ written = <<>>
    /\ include_planned = FALSE

SelInit ==
    /\ sel_variant \in {"optimal", "advanced", "simple"}
    /\ sel_pool \in SeqsUpTo(SelUniverse, MaxPool)
    /\ sel_radius_m \in Radii
    /\ sel_target \in 1..MaxTarget
    /\ sel_pc = "generated"
    /\ sel_candidates = <<>>
    /\ sel_greedy = <<>>
    /\ sel_iterative = <<>>
    /\ sel_best_random = <<>>
    /\ sel_best_random_coverage = 0
    /\ sel_trial = 0
    /\ sel_trial_selected = <<>>
    /\ sel_trial_available = <<>>
    /\ sel_result = <<>>
    /\ sel_strategy = "none"
    /\ PipeIdle

\* "if not all_candidates: return None" / "if not candidates: return None"
NoCandidates ==
    /\ sel_pc = "generated"
    /\ sel_pool = <<>>
    /\ sel_pc' = "none"
    /\ UNCHANGED <<sel_variant, sel_pool, sel_candidates, sel_radius_m,
                   sel_target, sel_greedy, sel_iterative,
                   sel_best_random, sel_best_random_coverage, sel_trial,
                   sel_trial_selected, sel_trial_available, sel_result, sel_strategy>>
    /\ UNCHANGED pipeVars

\* the deduplication each script runs before its selector; the sort is in place
Deduplicate ==
    /\ sel_pc = "generated"
    /\ sel_pool # <<>>
    /\ sel_candidates' =
         CASE sel_variant = "optimal" ->
                remove_duplicate_candidates_fast(sel_pool,
                                                 DedupDistance(sel_radius_m))
           [] sel_variant = "advanced" ->
                remove_duplicate_candidates(sel_pool,
                                            DedupDistance(sel_radius_m))
           [] sel_variant = "simple" -> SortByCoverage(sel_pool)
    /\ sel_pool' = SortByCoverage(sel_pool)
    /\ sel_pc' = "select"
    /\ UNCHANGED <<sel_variant, sel_radius_m, sel_target, sel_greedy,
                   sel_iterative, sel_best_random, sel_best_random_coverage,
                   sel_trial, sel_trial_selected, sel_trial_available, sel_result,
                   sel_strategy>>
    /\ UNCHANGED pipeVars

\* optimal_shelter_selection, whole
OptimalSelect ==
    /\ sel_pc = "select"
    /\ sel_variant = "optimal"
    /\ sel_result' =
         optimal_shelter_selection(sel_candidates, sel_radius_m, sel_target)
    /\ sel_strategy' = IF Len(sel_candidates) <= sel_target THEN "all" ELSE "lookahead"
    /\ sel_pc' = "done"
    /\ UNCHANGED <<sel_variant, sel_pool, sel_candidates, sel_radius_m,
                   sel_target, sel_greedy, sel_iterative,
                   sel_best_random, sel_best_random_coverage, sel_trial,
                   sel_trial_selected, sel_trial_available>>
    /\ UNCHANGED pipeVars

\* greedy_non_overlapping_selection, whole
SimpleSelect ==
    /\ sel_pc = "select"
    /\ sel_variant = "simple"
    /\ sel_result' =
         greedy_non_overlapping_selection(sel_candidates, sel_radius_m, sel_target)
    /\ sel_strategy' = IF Len(sel_candidates) <= sel_target THEN "all" ELSE "greedy"
    /\ sel_pc' = "done"
    /\ UNCHANGED <<sel_variant, sel_pool, sel_candidates, sel_radius_m,
                   sel_target, sel_greedy, sel_iterative,
                   sel_best_random, sel_best_random_coverage, sel_trial,
                   sel_trial_selected, sel_trial_available>>
    /\ UNCHANGED pipeVars

\* advanced_selection: "if len(candidates) <= target_count: return candidates"
AdvancedShortCircuit ==
    /\ sel_pc = "select"
    /\ sel_variant = "advanced"
    /\ Len(sel_candidates) <= sel_target
    /\ sel_result' = sel_candidates
    /\ sel_strategy' = "all"
    /\ sel_pc' = "done"
    /\ UNCHANGED <<sel_variant, sel_pool, sel_candidates, sel_radius_m,
                   sel_target, sel_greedy, sel_iterative,
                   sel_best_random, sel_best_random_coverage, sel_trial,
                   sel_trial_selected, sel_trial_available>>
    /\ UNCHANGED pipeVars

\* advanced_selection: strategies 1 and 2, then the first random trial starts
AdvancedGreedyAndIterative ==
    /\ sel_pc = "select"
    /\ sel_variant = "advanced"
    /\ Len(sel_candidates) > sel_target
    /\ LET g == greedy_selection(sel_candidates, MinSeparation(sel_radius_m),
                                 sel_target)
       IN /\ sel_greedy' = g
          /\ sel_iterative' =
               iterative_improvement_selection(sel_candidates,
                   MinSeparation(sel_radius_m), sel_target, g)
    /\ sel_best_random' = <<>>
    /\ sel_best_random_coverage' = 0
    /\ sel_trial' = 0
    /\ sel_trial_selected' = <<>>
    /\ sel_trial_available' = sel_candidates
    /\ sel_pc' = "random"
    /\ UNCHANGED <<sel_variant, sel_pool, sel_candidates, sel_radius_m,
                   sel_target, sel_result, sel_strategy>>
    /\ UNCHANGED pipeVars

\* a variant of the iteration in which the draw yields no candidate: nothing
\* is appended and nothing is removed
RandomPickDrawsNone ==
    /\ sel_pc = "random"
    /\ RandomLoopRuns(sel_trial_selected, sel_trial_available, sel_target)
    /\ UNCHANGED <<sel_trial_selected, sel_trial_available>>
    /\ UNCHANGED <<sel_variant, sel_pool, sel_candidates, sel_radius_m,
                   sel_target, sel_pc, sel_greedy, sel_iterative,
                   sel_best_random, sel_best_random_coverage, sel_trial,
                   sel_result, sel_strategy>>
    /\ UNCHANGED pipeVars

\* weighted_random_selection: one iteration of its while loop
RandomPick ==
    /\ sel_pc = "random"
    /\ RandomLoopRuns(sel_trial_selected, sel_trial_available, sel_target)
    /\ \E i \in DrawableIndices(sel_trial_available) :
          /\ sel_trial_selected' = Append(sel_trial_selected, sel_trial_available[i])
          /\ sel_trial_available' = RandomRemaining(sel_trial_available, sel_trial_available[i],
                                          MinSeparation(sel_radius_m))
    /\ UNCHANGED <<sel_variant, sel_pool, sel_candidates, sel_radius_m,
                   sel_target, sel_pc, sel_greedy, sel_iterative,
                   sel_best_random, sel_best_random_coverage, sel_trial,
                   sel_result, sel_strategy>>
    /\ UNCHANGED pipeVars

\* weighted_random_selection returns; advanced_selection keeps the best trial
RandomTrialEnd ==
    /\ sel_pc = "random"
    /\ ~RandomLoopRuns(sel_trial_selected, sel_trial_available, sel_target)
    /\ LET total_coverage == TotalCoverage(sel_trial_selected)
       IN IF total_coverage > sel_best_random_coverage
          THEN /\ sel_best_random_coverage' = total_coverage
               /\ sel_best_random' = <<sel_trial_selected>>
          ELSE UNCHANGED <<sel_best_random_coverage, sel_best_random>>
    /\ sel_trial' = sel_trial + 1
    /\ sel_trial_selected' = <<>>
    /\ sel_trial_available' = IF sel_trial + 1 < RandomTrials THEN sel_candidates ELSE <<>>
    /\ sel_pc' = IF sel_trial + 1 < RandomTrials THEN "random" ELSE "compare"
    /\ UNCHANGED <<sel_variant, sel_pool, sel_candidates, sel_radius_m,
                   sel_target, sel_greedy, sel_iterative,
                   sel_result, sel_strategy>>
    /\ UNCHANGED pipeVars

\* advanced_selection: compare the strategies and return the best
AdvancedCompare ==
    /\ sel_pc = "compare"
    /\ LET best == CompareStrategies(sel_greedy, sel_iterative,
                                     sel_best_random)
       IN /\ sel_result' = best.selected
          /\ sel_strategy' = best.name
    /\ sel_pc' = "done"
    /\ UNCHANGED <<sel_variant, sel_pool, sel_candidates, sel_radius_m,
                   sel_target, sel_greedy, sel_iterative,
                   sel_best_random, sel_best_random_coverage, sel_trial,
                   sel_trial_selected, sel_trial_available>>
    /\ UNCHANGED pipeVars

SelNext ==
    \/ NoCandidates
    \/ Deduplicate
    \/ OptimalSelect
    \/ SimpleSelect
    \/ AdvancedShortCircuit
    \/ AdvancedGreedyAndIterative
    \/ RandomPick
    \/ RandomTrialEnd
    \/ AdvancedCompare

SelSpec == SelInit /\ [][SelNext]_vars

\* the candidates the termination runs draw their pools from, in generation
\* order
TermCandidates ==
    <<Candidate(0, 0, 15, <<"dbscan_centroid", 10, 10>>, 15),
      Candidate(0, -8 * Scale, 20, <<"dbscan_centroid", 10, 10>>, 20),
      Candidate(120 * Scale, 0, 20, <<"dbscan_centroid", 10, 10>>, 20),
      Candidate(240 * Scale, 0, 15, <<"dbscan_centroid", 10, 10>>, 15),
      Candidate(320 * Scale, 0, 20, <<"dbscan_centroid", 10, 10>>, 20),
      Candidate(0, 0, 20, <<"dbscan_centroid", 10, 10>>, 20)>>

TermInit ==
    /\ sel_variant \in {"optimal", "advanced", "simple"}
    /\ sel_pool \in SubArrays(TermCandidates, MaxPool)
    /\ sel_radius_m \in Radii
    /\ sel_target \in 1..MaxTarget
    /\ sel_pc = "generated"
    /\ sel_candidates = <<>>
    /\ sel_greedy = <<>>
    /\ sel_iterative = <<>>
    /\ sel_best_random = <<>>
    /\ sel_best_random_coverage = 0
    /\ sel_trial = 0
    /\ sel_trial_selected = <<>>
    /\ sel_trial_available = <<>>
    /\ sel_result = <<>>
    /\ sel_strategy = "none"
    /\ PipeIdle

\* the selection is sequential code: an iteration of the trial loop that can
\* execute does execute, and so do the end of a trial and the comparison
\* that follows the last one
TermSpec ==
    /\ TermInit
    /\ [][SelNext]_vars
    /\ WF_vars(RandomPick)
    /\ WF_vars(RandomTrialEnd)
    /\ WF_vars(AdvancedCompare)

\* the selector variables while the pipeline specification runs
SelIdle ==
    /\ sel_variant = "idle"
    /\ sel_pool = <<>>
    /\ sel_candidates = <<>>
    /\ sel_radius_m = 0
    /\ sel_target = 0
    /\ sel_pc = "idle"
    /\ sel_greedy = <<>>
    /\ sel_iterative = <<>>
    /\ sel_best_random = <<>>
    /\ sel_best_random_coverage = 0
    /\ sel_trial = 0
    /\ sel_trial_selected = <<>>
    /\ sel_trial_available = <<>>
    /\ sel_result = <<>>
    /\ sel_strategy = "none"

(***************************************************************************)
(* DedupSpec: the two deduplicators on pools of candidates a few meters    *)
(* apart, on both sides of the origin.                                     *)
(***************************************************************************)
\* candidate positions, in meters north/east of an origin
DedupPositions == {<<0, -12>>, <<0, -8>>, <<0, 1>>, <<0, 12>>, <<-9, -9>>}

DedupUniverse ==
    {Candidate(p[1] * Scale, p[2] * Scale, c, <<"dbscan_centroid", 10, 10>>, c) :
        p \in DedupPositions, c \in SelCoverages}

DedupInit ==
    /\ sel_variant \in {"optimal", "advanced"}
    /\ sel_pool \in SeqsUpTo(DedupUniverse, MaxPool)
    /\ sel_radius_m \in Radii
    /\ sel_target = MaxTarget
    /\ sel_pc = "generated"
    /\ sel_candidates = <<>>
    /\ sel_greedy = <<>>
    /\ sel_iterative = <<>>
    /\ sel_best_random = <<>>
    /\ sel_best_random_coverage = 0
    /\ sel_trial = 0
    /\ sel_trial_selected = <<>>
    /\ sel_trial_available = <<>>
    /\ sel_result = <<>>
    /\ sel_strategy = "none"
    /\ PipeIdle

DedupNext == Deduplicate

DedupSpec == DedupInit /\ [][DedupNext]_vars

(***************************************************************************)
(* Spec: optimize_for_radius of the ensemble script for one radius, run    *)
(* twice on the same inputs.                                               *)
(***************************************************************************)
\* longest facility array
MaxShelters == 2

\* demand sites, in meters north/east of an origin
BuildingSites == <<<<230, 0>>, <<0, 0>>, <<45, 0>>, <<130, 0>>, <<0, 300>>, <<250, 0>>>>

\* facilities: two built ones and a planned one
ShelterSites == <<[pos |-> <<-60, -80>>, status |-> "Built"],
                  [pos |-> <<40, 0>>, status |-> "Built"],
                  [pos |-> <<300, 60>>, status |-> "Planned"]>>

ToUnits(p) == <<p[1] * Scale, p[2] * Scale>>

\* process_existing_shelters: the positions of the facilities whose status
\* is 'Built'
process_existing_shelters(features) ==
    LET built == SelectSeq(features, LAMBDA f : f.status = "Built")
    IN [i \in 1..Len(built) |-> built[i].pos]

\* filter_existing_coverage with the boundary of the radius left uncovered
filter_existing_coverage_open(coords, shelters, coverage_radius_deg) ==
    LET keep(i) == \A k \in 1..Len(shelters) :
                       DistSq(coords[i][1], coords[i][2], shelters[k][1], shelters[k][2])
                           >= coverage_radius_deg * coverage_radius_deg
        idx == SelectSeq([i \in 1..Len(coords) |-> i], keep)
    IN [uncovered_buildings |-> [j \in 1..Len(idx) |-> coords[idx[j]]],
        uncovered_indices |-> [j \in 1..Len(idx) |-> idx[j] - 1]]

\* filter_existing_coverage returning positions in the residual as indices
filter_existing_coverage_renumbered(coords, shelters, coverage_radius_deg) ==
    LET keep(i) == \A k \in 1..Len(shelters) :
                       DistSq(coords[i][1], coords[i][2], shelters[k][1], shelters[k][2])
                           > coverage_radius_deg * coverage_radius_deg
        idx == SelectSeq([i \in 1..Len(coords) |-> i], keep)
    IN [uncovered_buildings |-> [j \in 1..Len(idx) |-> coords[idx[j]]],
        uncovered_indices |-> [j \in 1..Len(idx) |-> j - 1]]

\* filter_existing_coverage: the demand points outside the radius of every
\* facility, and their (0-based) indices in the demand array
filter_existing_coverage(coords, shelters, coverage_radius_deg) ==
    IF Len(shelters) = 0
    THEN [uncovered_buildings |-> coords,
          uncovered_indices |-> [i \in 1..Len(coords) |-> i - 1]]
    ELSE LET covered_by(i, k) ==
                 DistSq(coords[i][1], coords[i][2], shelters[k][1], shelters[k][2])
                     <= coverage_radius_deg * coverage_radius_deg
             uncovered_mask == [i \in 1..Len(coords) |->
                                  \A k \in 1..Len(shelters) : ~covered_by(i, k)]
             idx == SelectSeq([i \in 1..Len(coords) |-> i],
                              LAMBDA i : uncovered_mask[i])
         IN [uncovered_buildings |-> [j \in 1..Len(idx) |-> coords[idx[j]]],
             uncovered_indices |-> [j \in 1..Len(idx) |-> idx[j] - 1]]

\* the (eps_mult, min_samples) configurations, in submission order
Configs ==
    LET n == Min2(NumEpsMultipliers, Len(DBSCAN_EPS_MULTIPLIERS))
        first == Len(DBSCAN_EPS_MULTIPLIERS) - n
    IN ConcatAll([e \in 1..n |->
          [m \in 1..Len(DBSCAN_MIN_SAMPLES) |->
              <<DBSCAN_EPS_MULTIPLIERS[first + e], DBSCAN_MIN_SAMPLES[m]>>]])

\* the (k, seed) pairs of generate_kmeans_candidates, in loop order
KMeansConfigs ==
    ConcatAll([i \in 1..Len(KMEANS_K_VALUES) |->
        [sd \in 1..N_KMEANS_SEEDS |-> <<KMEANS_K_VALUES[i], sd - 1>>]])

ConfigCandidates(c) ==
    run_single_dbscan_config(uncovered_buildings, meters_to_degrees(radius_m),
                             Configs[c][1], Configs[c][2])

\* round(num / den, digits) as an integer: half to even
RoundHalfEven(num, den) ==
    LET q == num \div den
        r == num % den
    IN IF 2 * r < den THEN q
       ELSE IF 2 * r > den THEN q + 1
       ELSE IF q % 2 = 0 THEN q ELSE q + 1

\* the all-covered record with the covered counts left at zero
AllCoveredResultUncounted ==
    [radius_m |-> radius_m,
     optimal_locations |-> <<>>,
     existing_shelters |-> process_existing_shelters(shelter_features),
     statistics |->
        [total_buildings |-> Len(building_coords),
         total_people |-> Len(building_coords) * PEOPLE_PER_BUILDING,
         shelters_selected |-> 0,
         buildings_covered |-> 0,
         people_covered |-> 0,
         coverage_percentage |-> 10000,
         avg_buildings_per_shelter |-> 0]]

\* the record returned when every building is already covered
AllCoveredResult ==
    [radius_m |-> radius_m,
     optimal_locations |-> <<>>,
     existing_shelters |-> process_existing_shelters(shelter_features),
     statistics |->
        [total_buildings |-> Len(building_coords),
         total_people |-> Len(building_coords) * PEOPLE_PER_BUILDING,
         shelters_selected |-> 0,
         buildings_covered |-> Len(building_coords),
         people_covered |-> Len(building_coords) * PEOPLE_PER_BUILDING,
         coverage_percentage |-> 10000,
         avg_buildings_per_shelter |-> 0]]

\* the record after an optimization with the buildings already covered left
\* out of the total
OptimizedResultNewOnly(shelters) ==
    LET buildings_covered == TotalCoverage(shelters)
    IN [radius_m |-> radius_m,
        optimal_locations |-> shelters,
        existing_shelters |-> process_existing_shelters(shelter_features),
        statistics |->
           [total_buildings |-> Len(building_coords),
            total_people |-> Len(building_coords) * PEOPLE_PER_BUILDING,
            shelters_selected |-> Len(shelters),
            new_buildings_covered |-> buildings_covered,
            new_people_covered |-> buildings_covered * PEOPLE_PER_BUILDING,
            total_buildings_covered |-> buildings_covered,
            total_people_covered |-> buildings_covered * PEOPLE_PER_BUILDING,
            coverage_percentage |->
                RoundHalfEven(buildings_covered * 10000, Len(building_coords)),
            avg_buildings_per_new_shelter |->
                IF shelters # <<>>
                THEN RoundHalfEven(buildings_covered * 10, Len(shelters)) ELSE 0]]

\* the record returned after an optimization; coverage_percentage in
\* hundredths of a percent, avg_buildings_per_new_shelter in tenths
OptimizedResult(shelters) ==
    LET buildings_covered == TotalCoverage(shelters)
        already_covered_buildings == Len(building_coords) - Len(uncovered_buildings)
        total_buildings_covered == buildings_covered + already_covered_buildings
    IN [radius_m |-> radius_m,
        optimal_locations |-> shelters,
        existing_shelters |-> process_existing_shelters(shelter_features),
        statistics |->
           [total_buildings |-> Len(building_coords),
            total_people |-> Len(building_coords) * PEOPLE_PER_BUILDING,
            shelters_selected |-> Len(shelters),
            new_buildings_covered |-> buildings_covered,
            new_people_covered |-> buildings_covered * PEOPLE_PER_BUILDING,
            total_buildings_covered |-> total_buildings_covered,
            total_people_covered |->
                (buildings_covered + already_covered_buildings) * PEOPLE_PER_BUILDING,
            coverage_percentage |->
                RoundHalfEven(total_buildings_covered * 10000, Len(building_coords)),
            avg_buildings_per_new_shelter |->
                IF shelters # <<>>
                THEN RoundHalfEven(buildings_covered * 10, Len(shelters)) ELSE 0]]

\* the state in which a run of the pipeline starts
RunStart ==
    /\ run_pc = "start"
    /\ existing_shelters = <<>>
    /\ uncovered_buildings = <<>>
    /\ uncovered_indices = <<>>
    /\ all_candidates = <<>>
    /\ enhanced_candidates = <<>>
    /\ kmeans_candidates = <<>>
    /\ task = [c \in 1..Len(Configs) |-> "unsubmitted"]
    /\ collected = {}
    /\ config_index = 0
    /\ deduplicated = <<>>
    /\ selected_shelters = <<>>
    /\ result = <<>>
    /\ raised = {}

Init ==
    /\ building_coords \in {[i \in 1..Len(a) |-> ToUnits(a[i])] :
                              a \in SubArrays(BuildingSites, MaxBuildings)}
    /\ shelter_features \in
          {[i \in 1..Len(a) |-> [pos |-> ToUnits(a[i].pos), status |-> a[i].status]] :
              a \in SubArrays(ShelterSites, MaxShelters)}
    /\ radius_m = RADII_TO_TEST[1]
    /\ written = <<>>
    /\ include_planned = FALSE
    /\ USE_MULTITHREADING \in BOOLEAN
    /\ TARGET_SHELTERS \in 1..MaxTarget
    /\ run_no = 1
    /\ first_run = <<>>
    /\ RunStart
    /\ SelIdle

\* optimize_for_radius, lines 835-852: with facilities and an empty demand
\* array calculate_shelter_coverage indexes building_coords[:, 0], an IndexError
EmptyDemandRaises ==
    /\ run_pc = "start"
    /\ building_coords = <<>>
    /\ process_existing_shelters(shelter_features) # <<>>
    /\ existing_shelters' = process_existing_shelters(shelter_features)
    /\ run_pc' = "aborted"
    /\ UNCHANGED <<building_coords, shelter_features, radius_m,
                   USE_MULTITHREADING, TARGET_SHELTERS, uncovered_buildings,
                   uncovered_indices, all_candidates, enhanced_candidates,
                   kmeans_candidates, task, collected, config_index,
                   deduplicated, selected_shelters, result, run_no, first_run,
                   raised>>
    /\ UNCHANGED <<written, include_planned>>
    /\ UNCHANGED selVars

\* optimize_for_radius, lines 835-877: the existing coverage is filtered out;
\* with nothing left uncovered the all-covered record is returned
FilterExisting ==
    /\ run_pc = "start"
    /\ ~(building_coords = <<>> /\ process_existing_shelters(shelter_features) # <<>>)
    /\ LET shelters == process_existing_shelters(shelter_features)
           f == filter_existing_coverage(building_coords, shelters,
                                         meters_to_degrees(radius_m))
       IN /\ existing_shelters' = shelters
          /\ uncovered_buildings' = f.uncovered_buildings
          /\ uncovered_indices' = f.uncovered_indices
          /\ IF Len(f.uncovered_buildings) = 0
             THEN /\ result' = <<AllCoveredResult>>
                  /\ run_pc' = "done"
             ELSE /\ result' = result
                  /\ run_pc' = "original_dbscan"
    /\ UNCHANGED <<building_coords, shelter_features, radius_m,
                   USE_MULTITHREADING, TARGET_SHELTERS, all_candidates,
                   enhanced_candidates, kmeans_candidates, task, collected,
                   config_index, deduplicated, selected_shelters, run_no,
                   first_run, raised>>
    /\ UNCHANGED <<written, include_planned>>
    /\ UNCHANGED selVars

\* generate_dbscan_candidates: the baseline run, then the enhanced variants
\* are submitted to the pool (lines 208-213) or the sequential loop starts
OriginalDbscan ==
    /\ run_pc = "original_dbscan"
    /\ all_candidates' = all_candidates \o
           generate_original_dbscan_candidates(uncovered_buildings, radius_m)
    /\ enhanced_candidates' = <<>>
    /\ IF USE_MULTITHREADING
       THEN /\ task' = [c \in 1..Len(Configs) |-> "pending"]
            /\ run_pc' = "collecting"
            /\ config_index' = config_index
       ELSE /\ task' = task
            /\ run_pc' = "sequential"
            /\ config_index' = 1
    /\ UNCHANGED <<building_coords, shelter_features, radius_m,
                   USE_MULTITHREADING, TARGET_SHELTERS, existing_shelters,
                   uncovered_buildings, uncovered_indices, kmeans_candidates,
                   collected, deduplicated, selected_shelters, result, run_no,
                   first_run, raised>>
    /\ UNCHANGED <<written, include_planned>>
    /\ UNCHANGED selVars

\* an error raised inside generate_original_dbscan_candidates: nothing catches
\* it, it leaves optimize_for_radius
OriginalDbscanRaises ==
    /\ run_pc = "original_dbscan"
    /\ raised' = raised \cup {<<"original_dbscan", 10, MIN_BUILDINGS_PER_CLUSTER>>}
    /\ run_pc' = "aborted"
    /\ UNCHANGED <<building_coords, shelter_features, radius_m,
                   USE_MULTITHREADING, TARGET_SHELTERS, existing_shelters,
                   uncovered_buildings, uncovered_indices, all_candidates,
                   enhanced_candidates, kmeans_candidates, task, collected,
                   config_index, deduplicated, selected_shelters, result,
                   run_no, first_run>>
    /\ UNCHANGED <<written, include_planned>>
    /\ UNCHANGED selVars

\* a worker of the ThreadPoolExecutor takes the oldest queued configuration
TaskStart(c) ==
    /\ run_pc = "collecting"
    /\ task[c] = "pending"
    /\ \A d \in 1..(c - 1) : task[d] # "pending"
    /\ Cardinality({d \in 1..Len(Configs) : task[d] = "running"}) < MAX_WORKERS
    /\ task' = [task EXCEPT ![c] = "running"]
    /\ UNCHANGED <<building_coords, shelter_features, radius_m,
                   USE_MULTITHREADING, TARGET_SHELTERS, run_pc,
                   existing_shelters, uncovered_buildings, uncovered_indices,
                   all_candidates, enhanced_candidates, kmeans_candidates,
                   collected, config_index, deduplicated, selected_shelters,
                   result, run_no, first_run, raised>>
    /\ UNCHANGED <<written, include_planned>>
    /\ UNCHANGED selVars

\* the worker's run_single_dbscan_config returns: the future holds its result
TaskFinish(c) ==
    /\ run_pc = "collecting"
    /\ task[c] = "running"
    /\ task' = [task EXCEPT ![c] = "finished"]
    /\ UNCHANGED <<building_coords, shelter_features, radius_m,
                   USE_MULTITHREADING, TARGET_SHELTERS, run_pc,
                   existing_shelters, uncovered_buildings, uncovered_indices,
                   all_candidates, enhanced_candidates, kmeans_candidates,
                   collected, config_index, deduplicated, selected_shelters,
                   result, run_no, first_run, raised>>
    /\ UNCHANGED <<written, include_planned>>
    /\ UNCHANGED selVars

\* the worker's run_single_dbscan_config raises: the future holds the exception
TaskRaises(c) ==
    /\ run_pc = "collecting"
    /\ task[c] = "running"
    /\ task' = [task EXCEPT ![c] = "raised"]
    /\ raised' = raised \cup {<<"dbscan", Configs[c][1], Configs[c][2]>>}
    /\ UNCHANGED <<building_coords, shelter_features, radius_m,
                   USE_MULTITHREADING, TARGET_SHELTERS, run_pc,
                   existing_shelters, uncovered_buildings, uncovered_indices,
                   all_candidates, enhanced_candidates, kmeans_candidates,
                   collected, config_index, deduplicated, selected_shelters,
                   result, run_no, first_run>>
    /\ UNCHANGED <<written, include_planned>>
    /\ UNCHANGED selVars

\* as_completed yields a finished future (lines 216-226):
\* candidates.extend(config_candidates)
CollectResult(c) ==
    /\ run_pc = "collecting"
    /\ task[c] = "finished"
    /\ c \notin collected
    /\ enhanced_candidates' = enhanced_candidates \o ConfigCandidates(c)
    /\ collected' = collected \cup {c}
    /\ UNCHANGED <<building_coords, shelter_features, radius_m,
                   USE_MULTITHREADING, TARGET_SHELTERS, run_pc,
                   existing_shelters, uncovered_buildings, uncovered_indices,
                   all_candidates, kmeans_candidates, task, config_index,
                   deduplicated, selected_shelters, result, run_no, first_run,
                   raised>>
    /\ UNCHANGED <<written, include_planned>>
    /\ UNCHANGED selVars

\* as_completed yields a failed future (lines 228-229): future.result() raises,
\* the except branch prints and the loop goes on
CollectException(c) ==
    /\ run_pc = "collecting"
    /\ task[c] = "raised"
    /\ c \notin collected
    /\ collected' = collected \cup {c}
    /\ UNCHANGED <<building_coords, shelter_features, radius_m,
                   USE_MULTITHREADING, TARGET_SHELTERS, run_pc,
                   existing_shelters, uncovered_buildings, uncovered_indices,
                   all_candidates, enhanced_candidates, kmeans_candidates,
                   task, config_index, deduplicated, selected_shelters, result,
                   run_no, first_run, raised>>
    /\ UNCHANGED <<written, include_planned>>
    /\ UNCHANGED selVars

\* the list returned as soon as one future was yielded
ParallelReturnEarly ==
    /\ run_pc = "collecting"
    /\ collected # {}
    /\ all_candidates' = all_candidates \o enhanced_candidates
    /\ run_pc' = "kmeans"
    /\ config_index' = 1
    /\ kmeans_candidates' = <<>>
    /\ UNCHANGED <<building_coords, shelter_features, radius_m, USE_MULTITHREADING,
                   TARGET_SHELTERS, existing_shelters, uncovered_buildings,
                   uncovered_indices, enhanced_candidates, task, collected,
                   deduplicated, selected_shelters, result, run_no, first_run, raised>>
    /\ UNCHANGED <<written, include_planned>>
    /\ UNCHANGED selVars

\* every future was yielded: the with block ends, the list is returned and
\* generate_dbscan_candidates extends the pool with it (lines 231, 284)
ParallelReturn ==
    /\ run_pc = "collecting"
    /\ collected = 1..Len(Configs)
    /\ all_candidates' = all_candidates \o enhanced_candidates
    /\ run_pc' = "kmeans"
    /\ config_index' = 1
    /\ kmeans_candidates' = <<>>
    /\ UNCHANGED <<building_coords, shelter_features, radius_m,
                   USE_MULTITHREADING, TARGET_SHELTERS, existing_shelters,
                   uncovered_buildings, uncovered_indices, enhanced_candidates,
                   task, collected, deduplicated, selected_shelters, result,
                   run_no, first_run, raised>>
    /\ UNCHANGED <<written, include_planned>>
    /\ UNCHANGED selVars

\* generate_dbscan_candidates_sequential: one configuration of the loop
SequentialConfig ==
    /\ run_pc = "sequential"
    /\ config_index <= Len(Configs)
    /\ enhanced_candidates' = enhanced_candidates \o ConfigCandidates(config_index)
    /\ config_index' = config_index + 1
    /\ UNCHANGED <<building_coords, shelter_features, radius_m,
                   USE_MULTITHREADING, TARGET_SHELTERS, run_pc,
                   existing_shelters, uncovered_buildings, uncovered_indices,
                   all_candidates, kmeans_candidates, task, collected,
                   deduplicated, selected_shelters, result, run_no, first_run,
                   raised>>
    /\ UNCHANGED <<written, include_planned>>
    /\ UNCHANGED selVars

\* an error raised by run_single_dbscan_config in the sequential loop: no
\* try/except around the call (lines 248-250)
SequentialConfigRaises ==
    /\ run_pc = "sequential"
    /\ config_index <= Len(Configs)
    /\ raised' = raised \cup {<<"dbscan", Configs[config_index][1],
                               Configs[config_index][2]>>}
    /\ run_pc' = "aborted"
    /\ UNCHANGED <<building_coords, shelter_features, radius_m,
                   USE_MULTITHREADING, TARGET_SHELTERS, existing_shelters,
                   uncovered_buildings, uncovered_indices, all_candidates,
                   enhanced_candidates, kmeans_candidates, task, collected,
                   config_index, deduplicated, selected_shelters, result,
                   run_no, first_run>>
    /\ UNCHANGED <<written, include_planned>>
    /\ UNCHANGED selVars

\* the sequential loop is over (lines 259, 284)
SequentialReturn ==
    /\ run_pc = "sequential"
    /\ config_index > Len(Configs)
    /\ all_candidates' = all_candidates \o enhanced_candidates
    /\ run_pc' = "kmeans"
    /\ config_index' = 1
    /\ kmeans_candidates' = <<>>
    /\ UNCHANGED <<building_coords, shelter_features, radius_m,
                   USE_MULTITHREADING, TARGET_SHELTERS, existing_shelters,
                   uncovered_buildings, uncovered_indices, enhanced_candidates,
                   task, collected, deduplicated, selected_shelters, result,
                   run_no, first_run, raised>>
    /\ UNCHANGED <<written, include_planned>>
    /\ UNCHANGED selVars

\* generate_kmeans_candidates: one (k, seed) of the loop (lines 304-338)
KMeansConfig ==
    /\ run_pc = "kmeans"
    /\ config_index <= Len(KMeansConfigs)
    /\ ~KMeansRaises(uncovered_buildings, KMeansConfigs[config_index][1])
    /\ kmeans_candidates' = kmeans_candidates \o
           kmeans_config_candidates(uncovered_buildings, radius_m, 0,
                                    KMeansConfigs[config_index][1],
                                    KMeansConfigs[config_index][2])
    /\ config_index' = config_index + 1
    /\ UNCHANGED <<building_coords, shelter_features, radius_m,
                   USE_MULTITHREADING, TARGET_SHELTERS, run_pc,
                   existing_shelters, uncovered_buildings, uncovered_indices,
                   all_candidates, enhanced_candidates, task, collected,
                   deduplicated, selected_shelters, result, run_no, first_run,
                   raised>>
    /\ UNCHANGED <<written, include_planned>>
    /\ UNCHANGED selVars

\* kmeans.fit_predict raises (fewer residual points than clusters): no
\* try/except around it (lines 311-312), the error leaves optimize_for_radius
KMeansConfigRaises ==
    /\ run_pc = "kmeans"
    /\ config_index <= Len(KMeansConfigs)
    /\ KMeansRaises(uncovered_buildings, KMeansConfigs[config_index][1])
    /\ raised' = raised \cup {<<"kmeans", KMeansConfigs[config_index][1],
                               KMeansConfigs[config_index][2] + 1>>}
    /\ run_pc' = "aborted"
    /\ UNCHANGED <<building_coords, shelter_features, radius_m,
                   USE_MULTITHREADING, TARGET_SHELTERS, existing_shelters,
                   uncovered_buildings, uncovered_indices, all_candidates,
                   enhanced_candidates, kmeans_candidates, task, collected,
                   config_index, deduplicated, selected_shelters, result,
                   run_no, first_run>>
    /\ UNCHANGED <<written, include_planned>>
    /\ UNCHANGED selVars

\* generate_kmeans_candidates returns, the pool is extended (lines 340, 466)
KMeansReturn ==
    /\ run_pc = "kmeans"
    /\ config_index > Len(KMeansConfigs)
    /\ all_candidates' = all_candidates \o kmeans_candidates
    /\ run_pc' = "deduplication"
    /\ UNCHANGED <<building_coords, shelter_features, radius_m,
                   USE_MULTITHREADING, TARGET_SHELTERS, existing_shelters,
                   uncovered_buildings, uncovered_indices, enhanced_candidates,
                   kmeans_candidates, task, collected, config_index,
                   deduplicated, selected_shelters, result, run_no, first_run,
                   raised>>
    /\ UNCHANGED <<written, include_planned>>
    /\ UNCHANGED selVars

\* a variant of the empty-pool exit that returns a record of the existing
\* coverage in place of None
NoViableCandidatesKeepsRecord ==
    /\ run_pc = "deduplication"
    /\ all_candidates = <<>>
    /\ result' = <<AllCoveredResultUncounted>>
    /\ run_pc' = "done"
    /\ UNCHANGED <<building_coords, shelter_features, radius_m,
                   USE_MULTITHREADING, TARGET_SHELTERS, existing_shelters,
                   uncovered_buildings, uncovered_indices, all_candidates,
                   enhanced_candidates, kmeans_candidates, task, collected,
                   config_index, deduplicated, selected_shelters, run_no,
                   first_run, raised>>
    /\ UNCHANGED <<written, include_planned>>
    /\ UNCHANGED selVars

\* "if not all_candidates: return None" and "if not result: return None";
\* None is the empty option <<>>
NoViableCandidates ==
    /\ run_pc = "deduplication"
    /\ all_candidates = <<>>
    /\ result' = <<>>
    /\ run_pc' = "done"
    /\ UNCHANGED <<building_coords, shelter_features, radius_m,
                   USE_MULTITHREADING, TARGET_SHELTERS, existing_shelters,
                   uncovered_buildings, uncovered_indices, all_candidates,
                   enhanced_candidates, kmeans_candidates, task, collected,
                   config_index, deduplicated, selected_shelters, run_no,
                   first_run, raised>>
    /\ UNCHANGED <<written, include_planned>>
    /\ UNCHANGED selVars

\* remove_duplicate_candidates_fast on the complete pool (lines 474-477); the
\* pool is sorted in place
Deduplication ==
    /\ run_pc = "deduplication"
    /\ all_candidates # <<>>
    /\ deduplicated' = remove_duplicate_candidates_fast(all_candidates,
                                                        DedupDistance(radius_m))
    /\ all_candidates' = SortByCoverage(all_candidates)
    /\ run_pc' = "selection"
    /\ UNCHANGED <<building_coords, shelter_features, radius_m,
                   USE_MULTITHREADING, TARGET_SHELTERS, existing_shelters,
                   uncovered_buildings, uncovered_indices, enhanced_candidates,
                   kmeans_candidates, task, collected, config_index,
                   selected_shelters, result, run_no, first_run, raised>>
    /\ UNCHANGED <<written, include_planned>>
    /\ UNCHANGED selVars

\* optimal_shelter_selection, the assertion of line 483, and the result record
\* of optimize_for_radius (lines 885-918)
Selection ==
    /\ run_pc = "selection"
    /\ LET sel == optimal_shelter_selection(deduplicated, radius_m, TARGET_SHELTERS)
       IN /\ selected_shelters' = sel
          /\ IF Len(sel) <= TARGET_SHELTERS
             THEN /\ result' = <<OptimizedResult(sel)>>
                  /\ run_pc' = "done"
             ELSE /\ result' = result
                  /\ run_pc' = "aborted"
    /\ UNCHANGED <<building_coords, shelter_features, radius_m,
                   USE_MULTITHREADING, TARGET_SHELTERS, existing_shelters,
                   uncovered_buildings, uncovered_indices, all_candidates,
                   enhanced_candidates, kmeans_candidates, task, collected,
                   config_index, deduplicated, run_no, first_run, raised>>
    /\ UNCHANGED <<written, include_planned>>
    /\ UNCHANGED selVars

\* a run that ended without an error is repeated on the same files and
\* configuration
RunAgain ==
    /\ run_pc = "done"
    /\ raised = {}
    /\ run_no = 1
    /\ first_run' = <<[all_candidates |-> all_candidates,
                       deduplicated |-> deduplicated,
                       selected_shelters |-> selected_shelters,
                       result |-> result]>>
    /\ run_no' = 2
    /\ run_pc' = "start"
    /\ existing_shelters' = <<>>
    /\ uncovered_buildings' = <<>>
    /\ uncovered_indices' = <<>>
    /\ all_candidates' = <<>>
    /\ enhanced_candidates' = <<>>
    /\ kmeans_candidates' = <<>>
    /\ task' = [c \in 1..Len(Configs) |-> "unsubmitted"]
    /\ collected' = {}
    /\ config_index' = 0
    /\ deduplicated' = <<>>
    /\ selected_shelters' = <<>>
    /\ result' = <<>>
    /\ raised' = {}
    /\ UNCHANGED <<building_coords, shelter_features, radius_m,
                   USE_MULTITHREADING, TARGET_SHELTERS>>
    /\ UNCHANGED <<written, include_planned>>
    /\ UNCHANGED selVars

\* position of a radius in RADII_TO_TEST
RadiusIndex(r) == CHOOSE i \in 1..Len(RADII_TO_TEST) : RADII_TO_TEST[i] = r

\* run_full_optimization, the rest of the loop body: "if result:" the record
\* is written to optimal_shelters_<radius>m.json; then the loop goes on to the
\* next radius or ends.  (The second execution is followed for one radius.)
SaveAndContinue ==
    /\ run_pc = "done"
    /\ run_no = 1
    /\ written' = IF result # <<>> THEN Append(written, result[1]) ELSE written
    /\ IF RadiusIndex(radius_m) < Min2(NumRadii, Len(RADII_TO_TEST))
       THEN /\ radius_m' = RADII_TO_TEST[RadiusIndex(radius_m) + 1]
            /\ run_pc' = "start"
            /\ existing_shelters' = <<>>
            /\ uncovered_buildings' = <<>>
            /\ uncovered_indices' = <<>>
            /\ all_candidates' = <<>>
            /\ enhanced_candidates' = <<>>
            /\ kmeans_candidates' = <<>>
            /\ task' = [c \in 1..Len(Configs) |-> "unsubmitted"]
            /\ collected' = {}
            /\ config_index' = 0
            /\ deduplicated' = <<>>
            /\ selected_shelters' = <<>>
            /\ result' = <<>>
            /\ raised' = {}
       ELSE /\ run_pc' = "finished"
            /\ UNCHANGED <<radius_m, existing_shelters, uncovered_buildings,
                           uncovered_indices, all_candidates, enhanced_candidates,
                           kmeans_candidates, task, collected, config_index,
                           deduplicated, selected_shelters, result, raised>>
    /\ UNCHANGED <<building_coords, shelter_features, USE_MULTITHREADING,
                   TARGET_SHELTERS, run_no, first_run, include_planned>>
    /\ UNCHANGED selVars

Next ==
    \/ EmptyDemandRaises
    \/ FilterExisting
    \/ OriginalDbscan
    \/ OriginalDbscanRaises
    \/ \E c \in 1..Len(Configs) : TaskStart(c)
    \/ \E c \in 1..Len(Configs) : TaskFinish(c)
    \/ \E c \in 1..Len(Configs) : TaskRaises(c)
    \/ \E c \in 1..Len(Configs) : CollectResult(c)
    \/ \E c \in 1..Len(Configs) : CollectException(c)
    \/ ParallelReturn
    \/ SequentialConfig
    \/ SequentialConfigRaises
    \/ SequentialReturn
    \/ KMeansConfig
    \/ KMeansConfigRaises
    \/ KMeansReturn
    \/ NoViableCandidates
    \/ Deduplication
    \/ Selection
    \/ RunAgain
    \/ SaveAndContinue

Spec == Init /\ [][Next]_vars

(***************************************************************************)
(* SimpleSpec: the simple optimizer (shelter_optimizer.py), DBSCAN         *)
(* centroids and a greedy pass, run for every radius and for both          *)
(* scenarios (without and with the planned facilities).                    *)
(***************************************************************************)
\* demand points and facilities, in meters north/east of an origin
SimpleBuildingSites == <<<<0, 0>>, <<-70, 75>>, <<0, 101>>, <<70, 75>>, <<0, 400>>>>

SimpleShelterSites == <<[pos |-> <<-60, -80>>, type |-> "existing"],
                        [pos |-> <<0, 350>>, type |-> "planned"]>>

\* process_existing_shelters of the simple optimizer: active_shelters, the
\* facilities not of type 'planned', then the planned ones when asked for
simple_process_existing_shelters(features, with_planned) ==
    LET existing == SelectSeq(features, LAMBDA f : f.type # "planned")
        planned == SelectSeq(features, LAMBDA f : f.type = "planned")
        active == IF with_planned THEN existing \o planned ELSE existing
    IN [i \in 1..Len(active) |-> active[i].pos]

\* find_building_clusters: DBSCAN with eps = the radius
find_building_clusters(coords, coverage_radius_m) ==
    DBSCAN(coords, meters_to_degrees(coverage_radius_m), MIN_BUILDINGS_PER_CLUSTER)

\* the candidate of one cluster: buildings_within_radius is counted over
\* cluster_buildings
SimpleClusterCandidate(coords, cluster_labels, cluster_id, coverage_radius_deg) ==
    LET members == ClusterMembers(cluster_labels, cluster_id)
        cluster_buildings == [k \in 1..Len(members) |-> coords[members[k]]]
        centroid == Centroid(coords, members)
        buildings_within_radius ==
            calculate_coverage_score(centroid[1], centroid[2], cluster_buildings,
                                     coverage_radius_deg)
    IN IF buildings_within_radius >= MIN_BUILDINGS_PER_CLUSTER
       THEN <<[lat |-> centroid[1], lon |-> centroid[2],
               buildings_covered |-> buildings_within_radius,
               people_covered |-> buildings_within_radius * PEOPLE_PER_BUILDING,
               cluster_id |-> cluster_id,
               cluster_size |-> Len(members)]>>
       ELSE <<>>

\* get_cluster_centroids: one candidate per cluster, sorted by coverage
get_cluster_centroids(coords, cluster_labels, coverage_radius_m) ==
    LET ids == ClusterIds(cluster_labels)
    IN SortByCoverage(ConcatAll([k \in 1..Len(ids) |->
           SimpleClusterCandidate(coords, cluster_labels, ids[k],
                                  meters_to_degrees(coverage_radius_m))]))

\* calculate_total_coverage: the number of buildings of coords within the
\* radius of some selected shelter
calculate_total_coverage(shelters, coords, coverage_radius_m) ==
    IF shelters = <<>> THEN 0
    ELSE Cardinality({i \in 1..Len(coords) : \E s \in 1..Len(shelters) :
             DistSq(coords[i][1], coords[i][2], shelters[s].lat, shelters[s].lon)
                 <= meters_to_degrees(coverage_radius_m)
                      * meters_to_degrees(coverage_radius_m)})

\* existing_shelter_data and planned_shelter_data
SimpleShelterData(type) ==
    SelectSeq(shelter_features,
              LAMBDA f : IF type = "planned" THEN f.type = "planned"
                         ELSE f.type # "planned")

\* the record returned when every building is already covered
SimpleAllCoveredResult ==
    [radius_m |-> radius_m,
     include_planned |-> include_planned,
     optimal_locations |-> <<>>,
     existing_shelters |-> SimpleShelterData("existing"),
     planned_shelters |-> SimpleShelterData("planned"),
     statistics |->
        [total_buildings |-> Len(building_coords),
         total_people |-> Len(building_coords) * PEOPLE_PER_BUILDING,
         shelters_selected |-> 0,
         buildings_covered |-> Len(building_coords),
         people_covered |-> Len(building_coords) * PEOPLE_PER_BUILDING,
         coverage_percentage |-> 10000,
         avg_buildings_per_shelter |-> 0]]

\* the record returned after an optimization; coverage_percentage in
\* hundredths of a percent, avg_buildings_per_new_shelter in tenths
SimpleResult(shelters) ==
    LET buildings_covered ==
            calculate_total_coverage(shelters, building_coords, radius_m)
        already_covered_buildings == Len(building_coords) - Len(uncovered_buildings)
        total_buildings_covered == buildings_covered + already_covered_buildings
    IN [radius_m |-> radius_m,
        include_planned |-> include_planned,
        optimal_locations |-> shelters,
        existing_shelters |-> SimpleShelterData("existing"),
        planned_shelters |-> SimpleShelterData("planned"),
        statistics |->
           [total_buildings |-> Len(building_coords),
            total_people |-> Len(building_coords) * PEOPLE_PER_BUILDING,
            shelters_selected |-> Len(shelters),
            new_buildings_covered |-> buildings_covered,
            new_people_covered |-> buildings_covered * PEOPLE_PER_BUILDING,
            total_buildings_covered |-> total_buildings_covered,
            total_people_covered |->
                buildings_covered * PEOPLE_PER_BUILDING
                    + already_covered_buildings * PEOPLE_PER_BUILDING,
            coverage_percentage |->
                RoundHalfEven(total_buildings_covered * 10000, Len(building_coords)),
            avg_buildings_per_new_shelter |->
                IF shelters # <<>>
                THEN RoundHalfEven(buildings_covered * 10, Len(shelters)) ELSE 0]]

\* the variables the simple optimizer has no use for
SimpleUnused == <<USE_MULTITHREADING, existing_shelters, enhanced_candidates,
                  kmeans_candidates, task, collected, config_index, deduplicated,
                  run_no, first_run, raised>>

SimpleInit ==
    /\ building_coords \in {[i \in 1..Len(a) |-> ToUnits(a[i])] :
                              a \in SubArrays(SimpleBuildingSites, MaxBuildings)}
    /\ shelter_features \in
          {[i \in 1..Len(a) |-> [pos |-> ToUnits(a[i].pos), type |-> a[i].type]] :
              a \in SubArrays(SimpleShelterSites, MaxShelters)}
    /\ radius_m = RADII_TO_TEST[1]
    /\ include_planned = FALSE
    /\ written = <<>>
    /\ TARGET_SHELTERS \in 1..MaxTarget
    /\ run_pc = "start"
    /\ uncovered_buildings = <<>>
    /\ uncovered_indices = <<>>
    /\ all_candidates = <<>>
    /\ selected_shelters = <<>>
    /\ result = <<>>
    /\ USE_MULTITHREADING = FALSE
    /\ existing_shelters = <<>>
    /\ enhanced_candidates = <<>>
    /\ kmeans_candidates = <<>>
    /\ task = <<>>
    /\ collected = {}
    /\ config_index = 0
    /\ deduplicated = <<>>
    /\ run_no = 1
    /\ first_run = <<>>
    /\ raised = {}
    /\ SelIdle

\* optimize_for_radius_and_scenario, lines 267-276: with active facilities
\* and an empty demand array calculate_shelter_coverage indexes
\* building_coords[:, 0], an IndexError that ends the script
SimpleEmptyDemandRaises ==
    /\ run_pc = "start"
    /\ building_coords = <<>>
    /\ simple_process_existing_shelters(shelter_features, include_planned) # <<>>
    /\ run_pc' = "aborted"
    /\ UNCHANGED <<building_coords, shelter_features, radius_m, include_planned,
                   TARGET_SHELTERS, uncovered_buildings, uncovered_indices,
                   all_candidates, selected_shelters, result, written>>
    /\ UNCHANGED SimpleUnused
    /\ UNCHANGED selVars

\* optimize_for_radius_and_scenario, lines 267-310: the buildings covered by
\* the active facilities are filtered out; with nothing left the all-covered
\* record is returned
SimpleFilter ==
    /\ run_pc = "start"
    /\ ~(building_coords = <<>> /\
         simple_process_existing_shelters(shelter_features, include_planned) # <<>>)
    /\ LET active_shelters ==
               simple_process_existing_shelters(shelter_features, include_planned)
           f == filter_existing_coverage(building_coords, active_shelters,
                                         meters_to_degrees(radius_m))
       IN /\ uncovered_buildings' = f.uncovered_buildings
          /\ uncovered_indices' = f.uncovered_indices
          /\ IF Len(f.uncovered_buildings) = 0
             THEN /\ result' = <<SimpleAllCoveredResult>>
                  /\ run_pc' = "done"
             ELSE /\ result' = result
                  /\ run_pc' = "clusters"
    /\ UNCHANGED <<building_coords, shelter_features, radius_m, include_planned,
                   TARGET_SHELTERS, all_candidates, selected_shelters, written>>
    /\ UNCHANGED SimpleUnused
    /\ UNCHANGED selVars

\* lines 316-323: the clusters, their centroids; None without a candidate
SimpleCandidates ==
    /\ run_pc = "clusters"
    /\ LET cluster_labels == find_building_clusters(uncovered_buildings, radius_m)
           candidates == get_cluster_centroids(uncovered_buildings, cluster_labels,
                                               radius_m)
       IN /\ all_candidates' = candidates
          /\ run_pc' = IF candidates = <<>> THEN "done" ELSE "selection"
    /\ UNCHANGED <<building_coords, shelter_features, radius_m, include_planned,
                   TARGET_SHELTERS, uncovered_buildings, uncovered_indices,
                   selected_shelters, result, written>>
    /\ UNCHANGED SimpleUnused
    /\ UNCHANGED selVars

\* lines 326-363: the greedy selection and the result record
SimpleSelection ==
    /\ run_pc = "selection"
    /\ LET selected == greedy_non_overlapping_selection(all_candidates, radius_m,
                                                        TARGET_SHELTERS)
       IN /\ selected_shelters' = selected
          /\ result' = <<SimpleResult(selected)>>
    /\ run_pc' = "done"
    /\ UNCHANGED <<building_coords, shelter_features, radius_m, include_planned,
                   TARGET_SHELTERS, uncovered_buildings, uncovered_indices,
                   all_candidates, written>>
    /\ UNCHANGED SimpleUnused
    /\ UNCHANGED selVars

\* run_full_optimization of the simple optimizer, the rest of the loop body:
\* "if result:" the record is written; then the next scenario, the next
\* radius, or the end
SimpleSaveAndContinue ==
    /\ run_pc = "done"
    /\ written' = IF result # <<>> THEN Append(written, result[1]) ELSE written
    /\ IF ~include_planned \/ RadiusIndex(radius_m) < Min2(NumRadii, Len(RADII_TO_TEST))
       THEN /\ include_planned' = ~include_planned
            /\ radius_m' = IF include_planned
                           THEN RADII_TO_TEST[RadiusIndex(radius_m) + 1]
                           ELSE radius_m
            /\ run_pc' = "start"
            /\ uncovered_buildings' = <<>>
            /\ uncovered_indices' = <<>>
            /\ all_candidates' = <<>>
            /\ selected_shelters' = <<>>
            /\ result' = <<>>
       ELSE /\ run_pc' = "finished"
            /\ UNCHANGED <<include_planned, radius_m, uncovered_buildings,
                           uncovered_indices, all_candidates, selected_shelters,
                           result>>
    /\ UNCHANGED <<building_coords, shelter_features, TARGET_SHELTERS>>
    /\ UNCHANGED SimpleUnused
    /\ UNCHANGED selVars

SimpleNext ==
    \/ SimpleEmptyDemandRaises
    \/ SimpleFilter
    \/ SimpleCandidates
    \/ SimpleSelection
    \/ SimpleSaveAndContinue

SimpleSpec == SimpleInit /\ [][SimpleNext]_vars

(***************************************************************************)
(* Claims about the selectors (checked under SelSpec).                     *)
(***************************************************************************)
\* any two distinct sites of sel are at distance >= min_distance_deg
PairwiseSeparated(sel, min_distance_deg) ==
    \A i \in 1..Len(sel) : \A j \in 1..Len(sel) :
        i # j => ~TooClose(sel[i], sel[j], min_distance_deg)

Max2(a, b) == IF a > b THEN a ELSE b

\* C1: every selection a selector returns is pairwise separated by at least
\* 2 x radius, whatever the size of the pool (pools of at most N included).
C1_ReturnedSitesSeparated ==
    sel_pc = "done" =>
        PairwiseSeparated(sel_result, MinSeparation(sel_radius_m))

\* C2: the selector returns at most N sites, on the short-circuit path and for
\* each strategy (greedy, local search, weighted random, lookahead).
C2_AtMostTargetCount ==
    /\ Len(sel_greedy) <= sel_target
    /\ Len(sel_iterative) <= sel_target
    /\ Len(sel_trial_selected) <= sel_target
    /\ \A i \in 1..Len(sel_best_random) : Len(sel_best_random[i]) <= sel_target
    /\ Len(sel_result) <= sel_target

C2_Witness ==
    /\ sel_pc = "done"
    /\ Len(sel_candidates) > sel_target
    /\ Len(sel_result) = sel_target
    /\ sel_target >= 2

\* C3: with more than N candidates advanced_selection returns a selection
\* whose total is >= the total of the greedy, the local-search and the best
\* weighted-random result, and of the strategies that reach the best total the
\* one evaluated first is returned; optimal_shelter_selection, whose one
\* strategy is the lookahead-greedy, returns that strategy's result.
C3_BestOfStrategies ==
    (sel_pc = "done" /\ Len(sel_candidates) > sel_target) =>
        /\ sel_variant = "advanced" =>
             LET tg == TotalCoverage(sel_greedy)
                 ti == TotalCoverage(sel_iterative)
                 tr == sel_best_random_coverage
                 best == Max2(tg, Max2(ti, tr))
             IN /\ TotalCoverage(sel_result) = best
                /\ tr = IF sel_best_random = <<>> THEN 0
                        ELSE TotalCoverage(sel_best_random[1])
                /\ sel_strategy = IF tg = best THEN "greedy"
                                  ELSE IF ti = best THEN "iterative" ELSE "random"
                /\ sel_result = CASE sel_strategy = "greedy" -> sel_greedy
                                  [] sel_strategy = "iterative" -> sel_iterative
                                  [] sel_strategy = "random" -> sel_best_random[1]
        /\ sel_variant = "optimal" =>
             /\ sel_strategy = "lookahead"
             /\ sel_result = greedy_selection_with_lookahead(
                                 sel_candidates, MinSeparation(sel_radius_m),
                                 sel_target)

\* the random strategy strictly beats greedy and local search and is returned
C3_Witness ==
    /\ sel_pc = "done"
    /\ sel_variant = "advanced"
    /\ Len(sel_candidates) > sel_target
    /\ sel_strategy = "random"
    /\ TotalCoverage(sel_result) > TotalCoverage(sel_greedy)

\* C4: with at most N candidates the selector returns its input list as it
\* is and runs no heuristic.
C4_ShortCircuit ==
    (sel_pc = "done" /\ Len(sel_candidates) <= sel_target) =>
        /\ sel_result = sel_candidates
        /\ sel_strategy = "all"
        /\ sel_greedy = <<>> /\ sel_iterative = <<>>
        /\ sel_best_random = <<>> /\ sel_trial = 0

\* two candidates of coverage 20 and 15, target 2: both returned, total 35
C4_Witness ==
    /\ sel_pc = "done"
    /\ sel_target = 2
    /\ Len(sel_candidates) = 2
    /\ sel_candidates[1].buildings_covered = 20
    /\ sel_candidates[2].buildings_covered = 15
    /\ Len(sel_result) = 2
    /\ TotalCoverage(sel_result) = 35

(***************************************************************************)
(* Claims about the pipeline (specification Spec).                         *)
(***************************************************************************)
\* the filter of optimize_for_radius has run in this run
Filtered == run_pc \notin {"idle", "start"} /\ ~(building_coords = <<>> /\ run_pc = "aborted")

\* the facilities whose status is 'Built'
ActiveFacilities == {k \in 1..Len(shelter_features) : shelter_features[k].status = "Built"}

\* demand point i lies strictly outside the radius of every active facility
OutsideEveryFacility(i) ==
    \A k \in ActiveFacilities :
        DistSq(building_coords[i][1], building_coords[i][2],
               shelter_features[k].pos[1], shelter_features[k].pos[2])
            > meters_to_degrees(radius_m) * meters_to_degrees(radius_m)

\* C5: a demand point is in the residual returned by filter_existing_coverage
\* if and only if its squared distance to every active facility is strictly
\* greater than radius^2: no point within the radius (boundary included) is
\* passed on, and no uncovered point is lost.
C5_FilterExact ==
    Filtered =>
        /\ \A i \in 1..Len(building_coords) :
              (i - 1 \in Range(uncovered_indices)) <=> OutsideEveryFacility(i)
        /\ \A j \in 1..Len(uncovered_buildings) :
              \E i \in 1..Len(building_coords) :
                  /\ uncovered_buildings[j] = building_coords[i]
                  /\ OutsideEveryFacility(i)
        /\ \A i \in 1..Len(building_coords) :
              OutsideEveryFacility(i) => building_coords[i] \in Range(uncovered_buildings)

\* a point exactly on the boundary of a facility was filtered out while other
\* points were passed on
C5_Witness ==
    /\ Filtered
    /\ uncovered_buildings # <<>>
    /\ \E i \in 1..Len(building_coords) : \E k \in ActiveFacilities :
          /\ DistSq(building_coords[i][1], building_coords[i][2],
                    shelter_features[k].pos[1], shelter_features[k].pos[2])
                = meters_to_degrees(radius_m) * meters_to_degrees(radius_m)
          /\ building_coords[i] \notin Range(uncovered_buildings)

\* C6: in the step that runs filter_existing_coverage the demand array is left
\* unchanged, the returned indices are strictly increasing, residual[i] =
\* demand[indices[i]], and with no active facility the residual is the whole
\* demand array with the indices 0..n-1.
C6_ResidualIsSubsequence ==
    [][(run_pc = "start" /\ run_pc' \notin {"start", "aborted"}) =>
          /\ building_coords' = building_coords
          /\ Len(uncovered_indices') = Len(uncovered_buildings')
          /\ \A j \in 1..Len(uncovered_indices') :
                /\ uncovered_indices'[j] \in 0..(Len(building_coords) - 1)
                /\ uncovered_buildings'[j] = building_coords[uncovered_indices'[j] + 1]
          /\ \A j \in 1..(Len(uncovered_indices') - 1) :
                uncovered_indices'[j] < uncovered_indices'[j + 1]
          /\ (ActiveFacilities = {} =>
                /\ uncovered_buildings' = building_coords
                /\ uncovered_indices' = [i \in 1..Len(building_coords) |-> i - 1])]_vars

\* the filter dropped a point in the middle of the demand array: the indices
\* skip a value
C6_Witness ==
    /\ Filtered
    /\ Len(uncovered_indices) >= 2
    /\ \E j \in 1..(Len(uncovered_indices) - 1) :
          uncovered_indices[j + 1] > uncovered_indices[j] + 1

\* both runs went through without any error
BothRunsClean ==
    /\ run_no = 2
    /\ run_pc = "done"
    /\ raised = {}

Positions(shelters) == {<<shelters[i].lat, shelters[i].lon>> : i \in 1..Len(shelters)}

\* C7: two executions of the pipeline for one radius on identical demand
\* points, facilities and configuration produce identical candidate pools and
\* identical selected-site sets.
C7_Deterministic ==
    BothRunsClean =>
        /\ Range(all_candidates) = Range(first_run[1].all_candidates)
        /\ Positions(selected_shelters) = Positions(first_run[1].selected_shelters)

\* the pool of the enhanced density configurations in submission order
ReferencePool ==
    generate_original_dbscan_candidates(uncovered_buildings, radius_m)
        \o ConcatAll([c \in 1..Len(Configs) |-> ConfigCandidates(c)])
        \o kmeans_candidates

\* C8: for every completion order of the worker-pool tasks the deduplicated
\* candidate list and the final selected-site set are the same (the ones of
\* the submission order).
C8_CompletionOrderIrrelevant ==
    (run_pc = "done" /\ USE_MULTITHREADING /\ raised = {} /\ selected_shelters # <<>>) =>
        LET reference == remove_duplicate_candidates_fast(ReferencePool,
                                                          DedupDistance(radius_m))
        IN /\ Positions(deduplicated) = Positions(reference)
           /\ Positions(selected_shelters) =
                 Positions(optimal_shelter_selection(reference, radius_m, TARGET_SHELTERS))

\* the worker-pool tasks that have not completed yet
Unfinished == {c \in 1..Len(Configs) : task[c] \in {"pending", "running"}}

C10_ErrorsIsolated ==
    raised # {} => run_pc # "aborted"

\* optimize_for_radius has returned a result record (not None)
Emitted == run_pc \in {"done", "finished"} /\ result # <<>>

\* no generator, deduplication or selection step has run in this run
NothingGenerated ==
    /\ all_candidates = <<>> /\ enhanced_candidates = <<>> /\ kmeans_candidates = <<>>
    /\ deduplicated = <<>> /\ selected_shelters = <<>>
    /\ collected = {} /\ raised = {}
    /\ \A c \in 1..Len(task) : task[c] = "unsubmitted"

\* C11: when every demand point is within the radius of an active facility
\* (empty residual, total demand > 0) optimize_for_radius returns a record, not
\* an error and not None, with no optimal locations, 0 sites selected, covered
\* buildings = total demand and coverage 100 %, and no generator,
\* deduplication or selection step is run.
C11_AllCoveredResult ==
    (Filtered /\ building_coords # <<>> /\ uncovered_buildings = <<>>) =>
        /\ Emitted
        /\ result[1].optimal_locations = <<>>
        /\ result[1].statistics.shelters_selected = 0
        /\ result[1].statistics.total_buildings = Len(building_coords)
        /\ result[1].statistics.buildings_covered = Len(building_coords)
        /\ result[1].statistics.people_covered =
              Len(building_coords) * PEOPLE_PER_BUILDING
        /\ result[1].statistics.coverage_percentage = 10000
        /\ NothingGenerated

\* two or more buildings, all of them covered by the built facilities
C11_Witness ==
    /\ Filtered
    /\ Len(building_coords) >= 2
    /\ uncovered_buildings = <<>>
    /\ Emitted

\* C12: with 0 demand points, for any facility set, the run ends without
\* raising in a record with 0 new sites, total demand 0 and coverage 100 %.
C12_EmptyDemandResult ==
    (building_coords = <<>> /\ run_pc # "start") =>
        /\ Emitted
        /\ result[1].optimal_locations = <<>>
        /\ result[1].statistics.shelters_selected = 0
        /\ result[1].statistics.total_buildings = 0
        /\ result[1].statistics.coverage_percentage = 10000

\* C13: when no demand points are supplied the run for the radius is aborted
\* and no result record is emitted.
C13_EmptyDemandAborts ==
    building_coords = <<>> => (result = <<>> /\ run_pc \in {"start", "aborted"})

\* C14: for a fixed demand set, facility set and configuration, the
\* coverage_percentage emitted for a radius is >= the one emitted for every
\* smaller radius.
C14_MonotoneInRadius ==
    Emitted =>
        \A i \in 1..Len(written) :
            written[i].radius_m < radius_m =>
                result[1].statistics.coverage_percentage
                    >= written[i].statistics.coverage_percentage

\* the original demand points within the radius of at least one of the sites
CoveredByNewSites(sites) ==
    {i \in 1..Len(building_coords) :
        \E k \in 1..Len(sites) :
            DistSq(building_coords[i][1], building_coords[i][2],
                   sites[k].lat, sites[k].lon)
                <= meters_to_degrees(radius_m) * meters_to_degrees(radius_m)}

\* C15: the new-coverage figure of the emitted statistics is the number of
\* distinct points of the full original demand set within the radius of at
\* least one selected site (not the sum of the candidates' residual counts);
\* the total adds the count already covered by the existing facilities.
C15_NewCoverageOverFullSet ==
    (Emitted /\ uncovered_buildings # <<>>) =>
        /\ result[1].statistics.new_buildings_covered =
              Cardinality(CoveredByNewSites(result[1].optimal_locations))
        /\ result[1].statistics.total_buildings_covered =
              result[1].statistics.new_buildings_covered
                  + (Len(building_coords) - Len(uncovered_buildings))

(***************************************************************************)
(* Claims about candidate generation.                                      *)
(***************************************************************************)
\* the number of residual demand points within the radius of a candidate
FullResidualCoverage(c) ==
    calculate_coverage_score(c.lat, c.lon, uncovered_buildings,
                             meters_to_degrees(radius_m))

\* C16: every candidate of the pool has as buildings_covered the number of
\* points of the full residual demand set within the radius of its position
\* (violated by the simple optimizer, which counts the members of the
\* generating cluster only)
C16_CoverageOverFullResidual ==
    \A i \in 1..Len(all_candidates) :
        all_candidates[i].buildings_covered = FullResidualCoverage(all_candidates[i])

\* the candidates of the density configurations generated so far
DensityCandidates ==
    {c \in Range(all_candidates) \cup Range(enhanced_candidates) :
        c.method[1] \in {"dbscan_centroid", "dbscan_medoid", "dbscan_best"}}

\* C17: every candidate of a density configuration comes from a cluster of at
\* least that configuration's min_samples members and covers at least
\* min_samples residual points (violated: clusters are formed with
\* min_samples, candidates are discarded below MIN_BUILDINGS_PER_CLUSTER)
C17_OneThreshold ==
    \A c \in DensityCandidates :
        c.cluster_size >= c.method[3] /\ c.buildings_covered >= c.method[3]

(***************************************************************************)
(* Claims about the result record.                                         *)
(***************************************************************************)
\* the statistics keys of the record returned after an optimization
StatisticsFields ==
    {"total_buildings", "total_people", "shelters_selected",
     "new_buildings_covered", "new_people_covered", "total_buildings_covered",
     "total_people_covered", "coverage_percentage",
     "avg_buildings_per_new_shelter"}

LocationFields == {"lat", "lon", "buildings_covered", "method", "cluster_size"}

\* C18: every emitted record, the all-covered one included, carries the same
\* statistics fields, and every entry of optimal_locations carries lat, lon,
\* buildings_covered, method and cluster_size (violated: the all-covered
\* record has buildings_covered, people_covered and avg_buildings_per_shelter
\* in place of the new/total figures)
C18_SameFields ==
    Emitted =>
        /\ DOMAIN result[1].statistics = StatisticsFields
        /\ \A i \in 1..Len(result[1].optimal_locations) :
               DOMAIN result[1].optimal_locations[i] = LocationFields

Abs(x) == IF x < 0 THEN -x ELSE x

\* q is num / den rounded to the nearest integer
IsRounded(q, num, den) == 2 * Abs(q * den - num) <= den

\* a record was returned for a residual set of at least one point
EmittedWithResidual == Emitted /\ uncovered_buildings # <<>>

\* the identities between the statistics of the record st that do not
\* involve the average
CountIdentities(rec) ==
    LET st == rec.statistics
    IN /\ st.shelters_selected = Len(rec.optimal_locations)
       /\ st.total_people = st.total_buildings * PEOPLE_PER_BUILDING
       /\ st.total_buildings_covered =
              st.new_buildings_covered
                  + (st.total_buildings - Len(uncovered_buildings))
       /\ IsRounded(st.coverage_percentage,
                    10000 * st.total_buildings_covered, st.total_buildings)

\* C19 as stated: in every emitted record with at least one residual point
\* the count identities hold and the average per new site is exactly
\* new coverage / sites selected, or 0 when no site is selected
C19_ExactAverage ==
    EmittedWithResidual =>
        LET st == result[1].statistics
        IN /\ CountIdentities(result[1])
           /\ IF st.shelters_selected = 0
              THEN st.avg_buildings_per_new_shelter = 0
              ELSE st.avg_buildings_per_new_shelter * st.shelters_selected
                       = 10 * st.new_buildings_covered

\* C19, amended: in every emitted record with at least one residual point
\* the count identities hold and the average per new site is
\* new coverage / sites selected rounded to one decimal, or 0 when no site
\* is selected
C19_StatisticsIdentities ==
    EmittedWithResidual =>
        LET st == result[1].statistics
        IN /\ CountIdentities(result[1])
           /\ IF st.shelters_selected = 0
              THEN st.avg_buildings_per_new_shelter = 0
              ELSE IsRounded(st.avg_buildings_per_new_shelter,
                             10 * st.new_buildings_covered, st.shelters_selected)

\* a record with sites selected whose average is not a whole number of tenths
C19_Witness ==
    /\ EmittedWithResidual
    /\ result[1].statistics.shelters_selected > 0
    /\ (10 * result[1].statistics.new_buildings_covered)
           % result[1].statistics.shelters_selected # 0

(***************************************************************************)
(* Claims about the local search (checked under SelSpec).                  *)
(***************************************************************************)
\* advanced_selection has just run its greedy strategy and its local search
LocalSearchRan ==
    /\ sel_variant = "advanced"
    /\ sel_pc = "random"
    /\ sel_trial = 0
    /\ sel_trial_selected = <<>>
    /\ Len(sel_candidates) > sel_target

\* what the local search started from init returns
LocalSearch(init) ==
    iterative_improvement_selection(sel_candidates, MinSeparation(sel_radius_m),
                                    sel_target, init)

\* current and every selection the passes of the local search go through
\* after it are pairwise separated
RECURSIVE SeparatedAtEverySwap(_, _)
SeparatedAtEverySwap(current, iterations) ==
    /\ PairwiseSeparated(current, MinSeparation(sel_radius_m))
    /\ \/ iterations >= max_iterations
       \/ LET sw == FirstSwap(current, SortByCoverage(sel_candidates),
                              MinSeparation(sel_radius_m))
          IN \/ sw = <<0, 0>>
             \/ SeparatedAtEverySwap(
                    [current EXCEPT ![sw[1]] = SortByCoverage(sel_candidates)[sw[2]]],
                    iterations + 1)

\* the pairwise separated selections of at most sel_target candidates of the
\* list handed to the selector
SeparatedSelections ==
    {t \in SeqsUpTo(Range(sel_candidates), sel_target) :
        /\ t # <<>>
        /\ \A i \in 1..Len(t) : \A j \in 1..Len(t) : i # j => t[i] # t[j]
        /\ PairwiseSeparated(t, MinSeparation(sel_radius_m))}

\* two candidates of coverage 20 and 15 closer than 2 x radius
ScenarioD ==
    /\ Len(sel_candidates) = 2
    /\ sel_candidates[1].buildings_covered = 20
    /\ sel_candidates[2].buildings_covered = 15
    /\ TooClose(sel_candidates[1], sel_candidates[2], MinSeparation(sel_radius_m))

\* C20: the local search never introduces a conflict: started from the greedy
\* selection, or from any pairwise separated selection, the selection is
\* pairwise separated by 2 x radius after every swap; with two conflicting
\* candidates of coverage 20 and 15 greedy selects the 20-coverage one only and
\* the local search leaves it so
C20_LocalSearchKeepsSeparation ==
    LocalSearchRan =>
        /\ PairwiseSeparated(sel_greedy, MinSeparation(sel_radius_m))
        /\ sel_iterative = LocalSearch(sel_greedy)
        /\ \A init \in {sel_greedy} \cup SeparatedSelections :
              /\ SeparatedAtEverySwap(init, 0)
              /\ PairwiseSeparated(LocalSearch(init), MinSeparation(sel_radius_m))
        /\ ScenarioD => /\ sel_greedy = <<sel_candidates[1]>>
                        /\ sel_iterative = <<sel_candidates[1]>>

\* Scenario D has run, and from some separated start the local search swaps
C20_Witness ==
    /\ LocalSearchRan
    /\ ScenarioD
    /\ \E init \in SeparatedSelections : LocalSearch(init) # init

(***************************************************************************)
(* Claims about the selection strategies (checked under SelSpec).          *)
(***************************************************************************)
\* s is sorted by non-increasing buildings_covered
SortedByCoverage(s) ==
    \A i \in 1..Len(s) : \A j \in 1..Len(s) :
        i < j => s[i].buildings_covered >= s[j].buildings_covered

\* the k-th smallest element of a set of numbers
RECURSIVE KthOf(_, _)
KthOf(S, k) == IF k = 1 THEN SetMin(S) ELSE KthOf(S \ {SetMin(S)}, k - 1)

\* the indices of list a greedy pass accepts: index i is accepted iff fewer
\* than target_count earlier indices are accepted and list[i] is at distance
\* >= min_distance_deg from every accepted earlier one
GreedyAccepted(list, min_distance_deg, target_count) ==
    CHOOSE A \in SUBSET (1..Len(list)) :
        \A i \in 1..Len(list) :
            i \in A <=>
               /\ Cardinality({j \in A : j < i}) < target_count
               /\ \A j \in A : j < i => ~TooClose(list[i], list[j], min_distance_deg)

\* g is what a greedy pass over list returns, and it is maximal
GreedyContract(list, g, min_distance_deg, target_count) ==
    LET A == GreedyAccepted(list, min_distance_deg, target_count)
    IN /\ SortedByCoverage(list)
       /\ g = [k \in 1..Cardinality(A) |-> list[KthOf(A, k)]]
       /\ Len(g) <= target_count
       /\ PairwiseSeparated(g, min_distance_deg)
       /\ \A i \in (1..Len(list)) \ A :
             \/ Len(g) = target_count
             \/ \E k \in 1..Len(g) :
                   /\ TooClose(list[i], g[k], min_distance_deg)
                   /\ g[k].buildings_covered >= list[i].buildings_covered

\* the greedy pass of the simple optimizer has returned
SimpleGreedyRan ==
    sel_variant = "simple" /\ sel_pc = "done" /\ Len(sel_candidates) > sel_target

\* C21: greedy selection examines the candidates in non-increasing coverage
\* order, accepts one iff it is at distance >= minimum separation from every
\* accepted site, stops at N accepted or at the end of the pool; so every
\* unselected candidate conflicts with a selected one of coverage >= its own,
\* or the selection has N sites
C21_GreedyMaximal ==
    /\ LocalSearchRan =>
          GreedyContract(sel_candidates, sel_greedy,
                         MinSeparation(sel_radius_m), sel_target)
    /\ SimpleGreedyRan =>
          GreedyContract(sel_candidates, sel_result,
                         MinSeparation(sel_radius_m), sel_target)

\* greedy rejected a candidate for a conflict and ended below N
C21_Witness ==
    /\ LocalSearchRan
    /\ Len(sel_greedy) < sel_target
    /\ Len(sel_candidates) > Len(sel_greedy)

\* passes of the local search followed one by one
PassBound == MaxPool + 1

\* the selection after at most n passes of the local search started from init
AfterPasses(init, n) ==
    IF init = <<>> THEN init
    ELSE ImprovementLoop(init, SortByCoverage(sel_candidates),
                         MinSeparation(sel_radius_m), max_iterations - n)

\* no one-for-one swap on sel is accepted
NoImprovingSwap(sel) ==
    \A i \in 1..Len(sel) : \A k \in 1..Len(sel_candidates) :
        ~SwapAccepted(sel, SortByCoverage(sel_candidates), i, k,
                      MinSeparation(sel_radius_m))

\* the contract of the local search started from init
LocalSearchContract(init) ==
    /\ Len(LocalSearch(init)) = Len(init)
    /\ TotalCoverage(LocalSearch(init)) >= TotalCoverage(init)
    /\ AfterPasses(init, 0) = init
    /\ AfterPasses(init, PassBound) = LocalSearch(init)
    /\ \A n \in 0..(PassBound - 1) :
          LET before == AfterPasses(init, n)
              after == AfterPasses(init, n + 1)
          IN /\ Len(after) = Len(before)
             /\ Cardinality({i \in 1..Len(before) : after[i] # before[i]}) <= 1
             /\ after # before =>
                   TotalCoverage(after) > TotalCoverage(before)
             /\ after = before =>
                   /\ LocalSearch(init) = before
                   /\ NoImprovingSwap(before)

\* C22: the local search makes only one-for-one swaps that strictly increase
\* the summed buildings_covered: the result has as many sites as the initial
\* selection and a total >= the initial total; a pass makes at most one swap,
\* there are at most max_iterations passes, and the search stops at the
\* first pass in which no improving swap exists
C22_OneForOneSwaps ==
    LocalSearchRan =>
        /\ sel_iterative = LocalSearch(sel_greedy)
        /\ \A init \in {sel_greedy} \cup SeparatedSelections :
              LocalSearchContract(init)

\* from some separated start the local search swaps and gains coverage
C22_Witness ==
    /\ LocalSearchRan
    /\ \E init \in SeparatedSelections :
          TotalCoverage(LocalSearch(init)) > TotalCoverage(init)

\* a weighted-random trial of advanced_selection is under way
TrialRunning == sel_variant = "advanced" /\ sel_pc = "random"

\* the candidates of the list handed to the selector that are at distance
\* >= minimum separation from every site picked in this trial
StillAvailable ==
    SelectSeq(sel_candidates,
              LAMBDA c : \A k \in 1..Len(sel_trial_selected) :
                  ~TooClose(sel_trial_selected[k], c, MinSeparation(sel_radius_m)))

\* during a trial: no site twice, no two conflicting sites, at most N sites,
\* and what remains is what no pick is in conflict with
TrialConsistent ==
    TrialRunning =>
        /\ \A i \in 1..Len(sel_trial_selected) : \A j \in 1..Len(sel_trial_selected) :
              i # j => sel_trial_selected[i] # sel_trial_selected[j]
        /\ PairwiseSeparated(sel_trial_selected, MinSeparation(sel_radius_m))
        /\ Len(sel_trial_selected) <= sel_target
        /\ sel_trial_available = StillAvailable
        /\ sel_trial < RandomTrials

\* a step that ends a trial: the trial has N sites or nothing remains, and
\* the trial replaces the best one kept so far iff its total is higher
TrialEndStep ==
    (TrialRunning /\ sel_trial' = sel_trial + 1) =>
        /\ Len(sel_trial_selected) = sel_target \/ sel_trial_available = <<>>
        /\ sel_trial_selected # <<>>
        /\ sel_best_random_coverage' =
              Max2(sel_best_random_coverage, TotalCoverage(sel_trial_selected))
        /\ sel_best_random' =
              IF TotalCoverage(sel_trial_selected) > sel_best_random_coverage
              THEN <<sel_trial_selected>> ELSE sel_best_random
        /\ sel_best_random' # <<>>
        /\ TotalCoverage(sel_best_random'[1]) = sel_best_random_coverage'
        /\ sel_pc' = "compare" <=> sel_trial' = RandomTrials

\* C23: for every sequence of random draws a pick removes the picked
\* candidate and every remaining candidate closer than the minimum
\* separation, so a trial never holds a candidate twice nor two conflicting
\* candidates; a trial ends only with N sites picked or no candidate left;
\* of the RandomTrials trials the one of highest total is kept, the first on
\* ties
C23_WeightedRandom == [](TrialConsistent) /\ [][TrialEndStep]_vars

\* a later trial with two sites picked, a conflicting candidate removed
C23_Witness ==
    /\ TrialRunning
    /\ sel_trial >= 1
    /\ Len(sel_trial_selected) = 2
    /\ Len(sel_trial_selected) + Len(sel_trial_available) < Len(sel_candidates)
    /\ sel_best_random_coverage > TotalCoverage(sel_trial_selected)

\* 50 x (coverage + 0.1 x (sum of the coverage of the first five later
\* candidates not in conflict with available[i]) / 5)
FiftyTimesScore(available, i, min_distance_deg) ==
    LET later == SelectSeq(SubSeq(available, i + 1, Len(available)),
                           LAMBDA c : ~TooClose(available[i], c, min_distance_deg))
    IN 50 * available[i].buildings_covered
         + SumSeq([k \in 1..Min2(5, Len(later)) |-> later[k].buildings_covered])

\* the pick b out of available is one of the ten first candidates, has the
\* highest score, is the earliest of that score, and has at least 10/11 of
\* the highest remaining coverage
PickOK(available, b, min_distance_deg) ==
    /\ b \in 1..Min2(10, Len(available))
    /\ \A j \in 1..Min2(10, Len(available)) :
          \/ FiftyTimesScore(available, j, min_distance_deg)
                < FiftyTimesScore(available, b, min_distance_deg)
          \/ /\ FiftyTimesScore(available, j, min_distance_deg)
                   = FiftyTimesScore(available, b, min_distance_deg)
             /\ j >= b
    /\ \A j \in 1..Len(available) :
          11 * available[b].buildings_covered >= 10 * available[j].buildings_covered

\* every pick of the lookahead loop run from (selected, available) is as
\* PickOK has it
RECURSIVE EveryPickOK(_, _, _, _)
EveryPickOK(selected, available, min_distance_deg, target_count) ==
    \/ ~(Len(selected) < target_count /\ available # <<>>)
    \/ LET b == BestLookahead(available, min_distance_deg)
       IN /\ PickOK(available, b, min_distance_deg)
          /\ EveryPickOK(Append(selected, available[b]),
                         SelectSeq(available,
                                   LAMBDA c : /\ c # available[b]
                                              /\ ~TooClose(available[b], c,
                                                           min_distance_deg)),
                         min_distance_deg, target_count)

\* twelve candidates of coverage 20: ten within a few meters of each other
\* and in conflict with the last two, which do not conflict with each other
LongPool ==
    [i \in 1..12 |->
        IF i <= 10 THEN Candidate(0, i * Scale, 20, <<"dbscan_centroid", 10, 10>>, 20)
        ELSE IF i = 11
        THEN Candidate(-150 * Scale, 0, 20, <<"dbscan_centroid", 10, 10>>, 20)
        ELSE Candidate(150 * Scale, 0, 20, <<"dbscan_centroid", 10, 10>>, 20)]

\* optimal_shelter_selection has run the lookahead-greedy
LookaheadRan ==
    sel_variant = "optimal" /\ sel_pc = "done" /\ Len(sel_candidates) > sel_target

\* C24: the lookahead-greedy only breaks near-ties: each pick is one of the
\* 10 highest-coverage remaining candidates and maximises coverage + 0.1 x
\* (sum of the coverage of the first five later non-conflicting remaining
\* candidates) / 5, the earliest on equal scores; its coverage is at least
\* 10/11 of the highest remaining coverage
C24_LookaheadNearTies ==
    LookaheadRan =>
        /\ sel_result = greedy_selection_with_lookahead(
                            sel_candidates, MinSeparation(sel_radius_m), sel_target)
        /\ EveryPickOK(<<>>, sel_candidates, MinSeparation(sel_radius_m), sel_target)
        /\ EveryPickOK(<<>>, LongPool, MinSeparation(100), 2)
        /\ greedy_selection_with_lookahead(LongPool, MinSeparation(100), 2)
              = <<LongPool[1]>>

\* the first pick is not the first candidate: a near-tie broken by the bonus
C24_Witness ==
    /\ LookaheadRan
    /\ BestLookahead(sel_candidates, MinSeparation(sel_radius_m)) > 1
    /\ TotalCoverage(sel_result)
          > TotalCoverage(greedy_selection(sel_candidates,
                                           MinSeparation(sel_radius_m), sel_target))

(***************************************************************************)
(* Claims about deduplication (checked under DedupSpec).                   *)
(***************************************************************************)
\* the deduplication of the ensemble script has run
FastDedupRan == sel_variant = "optimal" /\ sel_pc = "select"

\* C25: after deduplication the list is sorted by non-increasing
\* buildings_covered, no two retained candidates are closer than the
\* deduplication distance 0.1 x radius, and every dropped candidate is closer
\* than that distance to a retained candidate of coverage >= its own
C25_DedupContract ==
    FastDedupRan =>
        /\ SortedByCoverage(sel_candidates)
        /\ PairwiseSeparated(sel_candidates, DedupDistance(sel_radius_m))
        /\ Range(sel_candidates) \subseteq Range(sel_pool)
        /\ 10 * DedupDistance(sel_radius_m) = meters_to_degrees(sel_radius_m)
        /\ \A i \in 1..Len(sel_pool) :
              \/ sel_pool[i] \in Range(sel_candidates)
              \/ \E k \in 1..Len(sel_candidates) :
                    /\ TooClose(sel_pool[i], sel_candidates[k],
                                DedupDistance(sel_radius_m))
                    /\ sel_candidates[k].buildings_covered
                          >= sel_pool[i].buildings_covered

\* a candidate was dropped next to a retained one of higher coverage, and one
\* near the dropped candidate was retained
C25_Witness ==
    /\ FastDedupRan
    /\ Len(sel_pool) = 3
    /\ Len(sel_candidates) = 2
    /\ sel_candidates[1].buildings_covered > sel_candidates[2].buildings_covered
    /\ \E i \in 1..Len(sel_pool) :
          /\ sel_pool[i] \notin Range(sel_candidates)
          /\ TooClose(sel_pool[i], sel_candidates[2], DedupDistance(sel_radius_m))

\* a deduplicator has run
DedupRan == sel_pc = "select" /\ sel_variant \in {"optimal", "advanced"}

\* deduplication distances, in meters
DedupDistancesM == {1, 4, 5, 9, 10, 12, 13, 15, 20, 30}

\* C26: the bucket-hashed deduplicator returns the same list as the plain
\* quadratic one for every candidate list and every positive distance,
\* candidates of negative and of mixed-sign coordinates included (int()
\* truncates toward zero, the buckets around 0 are of double width)
C26_FastEqualsPlain ==
    DedupRan =>
        /\ sel_candidates =
              remove_duplicate_candidates(sel_pool, DedupDistance(sel_radius_m))
        /\ sel_candidates =
              remove_duplicate_candidates_fast(sel_pool, DedupDistance(sel_radius_m))
        /\ \A m \in DedupDistancesM :
              remove_duplicate_candidates_fast(sel_pool, meters_to_degrees(m))
                = remove_duplicate_candidates(sel_pool, meters_to_degrees(m))

\* a candidate on one side of the origin was dropped for a retained one on
\* the other side, and another for a retained one in an adjacent bucket
C26_Witness ==
    /\ DedupRan
    /\ \E i \in 1..Len(sel_pool) : \E k \in 1..Len(sel_candidates) :
          /\ sel_pool[i] \notin Range(sel_candidates)
          /\ TooClose(sel_pool[i], sel_candidates[k], DedupDistance(sel_radius_m))
          /\ sel_pool[i].lon * sel_candidates[k].lon < 0
    /\ \E i \in 1..Len(sel_pool) : \E k \in 1..Len(sel_candidates) :
          /\ sel_pool[i] \notin Range(sel_candidates)
          /\ TooClose(sel_pool[i], sel_candidates[k], DedupDistance(sel_radius_m))
          /\ GridCell(sel_pool[i], DedupDistance(sel_radius_m))
                # GridCell(sel_candidates[k], DedupDistance(sel_radius_m))

\* minimum separations, in meters
SeparationsM == {0, 100, 130, 200, 250, 300, 400}

\* the local search started from the greedy selection returns it unchanged
GreedyIsFixpoint(min_distance_deg, target_count) ==
    LET g == greedy_selection(sel_candidates, min_distance_deg, target_count)
    IN iterative_improvement_selection(sel_candidates, min_distance_deg,
                                       target_count, g) = g

\* C27: the local search started from the greedy result on the same pool is
\* the identity, for every pool, N and minimum separation
C27_LocalSearchIdentityOnGreedy ==
    LocalSearchRan =>
        /\ sel_iterative = sel_greedy
        /\ \A n \in 0..(MaxPool + 1) : \A m \in SeparationsM :
              GreedyIsFixpoint(meters_to_degrees(m), n)

\* an unselected candidate has a higher coverage than a selected site
C27_Witness ==
    /\ LocalSearchRan
    /\ sel_iterative = sel_greedy
    /\ \E i \in 1..Len(sel_candidates) : \E k \in 1..Len(sel_greedy) :
          /\ sel_candidates[i] \notin Range(sel_greedy)
          /\ sel_candidates[i].buildings_covered > sel_greedy[k].buildings_covered

(***************************************************************************)
(* Further claims about the result record and the radius loop.             *)
(***************************************************************************)
\* the total covered count of a record
TotalCovered(rec) ==
    IF "total_buildings_covered" \in DOMAIN rec.statistics
    THEN rec.statistics.total_buildings_covered
    ELSE rec.statistics.buildings_covered

\* C28: in every emitted record the total covered count is at most the total
\* demand count and coverage_percentage is at most 100: no demand point is
\* counted twice (violated: the new coverage is the sum of the selected
\* candidates' buildings_covered)
C28_CoverageAtMostDemand ==
    Emitted =>
        /\ TotalCovered(result[1]) <= result[1].statistics.total_buildings
        /\ result[1].statistics.coverage_percentage <= 10000

\* optimize_for_radius has returned None for a non-empty residual demand
\* whose candidate pool is empty
ReturnedNone ==
    /\ run_pc = "done"
    /\ result = <<>>
    /\ uncovered_buildings # <<>>
    /\ all_candidates = <<>>

\* an empty pool for a non-empty residual demand is answered with None
EmptyPoolStep ==
    (run_pc = "deduplication" /\ all_candidates = <<>> /\ uncovered_buildings # <<>>)
        => (result' = <<>> /\ run_pc' = "done" /\ written' = written)

\* after None the loop of run_full_optimization writes nothing, so that no
\* written record carries the radius, and goes on to the next radius, or ends
\* after the last one
AfterNoneStep ==
    (ReturnedNone /\ run_no' = run_no) =>
        /\ written' = written
        /\ \A i \in 1..Len(written') : written'[i].radius_m # radius_m
        /\ IF RadiusIndex(radius_m) < Min2(NumRadii, Len(RADII_TO_TEST))
           THEN radius_m' = RADII_TO_TEST[RadiusIndex(radius_m) + 1] /\ run_pc' = "start"
           ELSE run_pc' = "finished"

\* C29: a non-empty residual demand with an empty candidate pool makes
\* optimize_for_radius return None; no record is written for that radius, so
\* no written record carries the radius while the None is pending, and
\* run_full_optimization continues with the remaining radii
C29_NoneSkipsRadius ==
    [][/\ ReturnedNone => \A i \in 1..Len(written) : written[i].radius_m # radius_m
       /\ EmptyPoolStep
       /\ AfterNoneStep]_vars

\* None was returned for the first radius although a built facility covers
\* part of the demand, and a radius is left to go on with
C29_Witness ==
    /\ ReturnedNone
    /\ RadiusIndex(radius_m) < Min2(NumRadii, Len(RADII_TO_TEST))
    /\ existing_shelters # <<>>
    /\ Len(uncovered_buildings) < Len(building_coords)

(***************************************************************************)
(* Termination of the selection loops.                                     *)
(***************************************************************************)
\* every iteration of the lookahead-greedy loop started from <<selected,
\* available>> shrinks the available list or grows the selection, or exits
RECURSIVE LookaheadProgress(_, _, _, _)
LookaheadProgress(selected, available, min_distance_deg, target_count) ==
    IF ~(Len(selected) < target_count /\ available # <<>>) THEN TRUE
    ELSE LET b == BestLookahead(available, min_distance_deg)
         IN IF b = 0 THEN TRUE
            ELSE LET best_candidate == available[b]
                     Keep(c) == c # best_candidate /\
                                ~TooClose(best_candidate, c, min_distance_deg)
                     next_selected == Append(selected, best_candidate)
                     next_available == SelectSeq(available, Keep)
                 IN /\ \/ Len(next_available) < Len(available)
                       \/ Len(next_selected) > Len(selected)
                    /\ LookaheadProgress(next_selected, next_available,
                                         min_distance_deg, target_count)

\* the number of passes of the local search, the last one included
RECURSIVE Passes(_, _, _, _)
Passes(current_selection, cands, min_distance_deg, iterations) ==
    IF iterations >= max_iterations THEN iterations
    ELSE LET sw == FirstSwap(current_selection, cands, min_distance_deg)
         IN IF sw = <<0, 0>> THEN iterations + 1
            ELSE Passes([current_selection EXCEPT ![sw[1]] = cands[sw[2]]],
                        cands, min_distance_deg, iterations + 1)

\* an iteration of a weighted-random trial shrinks the available list or
\* grows the trial's selection
TrialProgressStep ==
    (TrialRunning /\ sel_pc' = "random" /\ sel_trial' = sel_trial) =>
        \/ Len(sel_trial_available') < Len(sel_trial_available)
        \/ Len(sel_trial_selected') > Len(sel_trial_selected)

\* while the weighted-random loop runs a candidate can be drawn, whatever the
\* separation, and removing the conflicts never lengthens the list
DrawProgress ==
    TrialRunning =>
        \A n \in 0..(MaxPool + 1) :
            RandomLoopRuns(sel_trial_selected, sel_trial_available, n) =>
                /\ DrawableIndices(sel_trial_available) # {}
                /\ \A i \in DrawableIndices(sel_trial_available) : \A m \in SeparationsM :
                      Len(RandomRemaining(sel_trial_available, sel_trial_available[i],
                                          meters_to_degrees(m)))
                          <= Len(sel_trial_available)

\* the lookahead-greedy and the local search on the pool at hand, for every
\* count and separation
LoopsProgress ==
    /\ LookaheadRan =>
          \A n \in 0..(MaxPool + 1) : \A m \in SeparationsM :
              /\ LookaheadProgress(<<>>, SortByCoverage(sel_candidates),
                                   meters_to_degrees(m), n)
              /\ LookaheadProgress(<<>>, SortByCoverage(LongPool),
                                   meters_to_degrees(m), n)
    /\ LocalSearchRan =>
          \A m \in SeparationsM :
              Passes(sel_greedy, SortByCoverage(sel_candidates),
                     meters_to_degrees(m), 0) <= max_iterations

\* C30: every selection loop terminates: the weighted-random trials, once
\* started, all come to their end; each iteration of the lookahead-greedy and
\* of the weighted-random selection shrinks the available list, grows the
\* selection or exits; the local search makes at most 50 passes
C30_SelectionTerminates ==
    /\ (sel_pc = "random") ~> (sel_pc = "done")
    /\ [](LoopsProgress /\ DrawProgress)
    /\ [][TrialProgressStep]_vars

\* advanced_selection has returned after its greedy, its local search and all
\* of its weighted-random trials, one of which selected more than one site
C30_Witness ==
    /\ sel_variant = "advanced"
    /\ sel_pc = "done"
    /\ sel_trial = RandomTrials
    /\ Len(sel_candidates) > sel_target
    /\ sel_best_random # <<>>
    /\ Len(sel_best_random[1]) > 1

====
